---- MODULE Spec2Model ----
(***************************************************************************)
(* Fleet-carrier cargo tracker: the cargo ledger with change notification  *)
(* (FleetCarrierCargo), its refresh workers (update_from_server,           *)
(* sync_to_capi) and the journal delta engine (CargoMonitor).              *)
(*                                                                         *)
(* JSON scalars are written as strings ("false", "null"); Python's None    *)
(* for call_sign is the string None below.  A step taken while a lock is   *)
(* held is one action: every access to the ledger is made under           *)
(* _cargo_lock, so a critical section is atomic for every other thread.    *)
(***************************************************************************)
EXTENDS Integers, Sequences, FiniteSets, TLC

VARIABLES
    cargo,        \* FleetCarrierCargo._cargo : key -> quantity
    last_sync,    \* FleetCarrierCargo._last_sync
    call_sign,    \* FleetCarrierCargo._call_sign
    handlers,     \* FleetCarrierCargo._handlers
    gui_root,     \* FleetCarrierCargo._gui_root
    sink,         \* handlers handed to gui_root.after(0, .), not yet run
    config,       \* config[_json_config_name] : the persisted blob
    now,          \* wall clock, whole seconds
    updates_lock, \* FleetCarrierCargo._updates_lock : 0 free, else the holder
    workers,      \* threads started by update_from_server / sync_to_capi,
                  \* and calls of load_or_update between load() and the
                  \* staleness check
    session_ok,   \* session.state == Session.STATE_OK
    main_alive,   \* threading.main_thread().is_alive()
    last_known_cmdr,      \* CargoMonitor._last_known_cmdr
    delayed_update_data,  \* CargoMonitor._delayed_update_data
    cmdr_state,   \* CargoMonitor._last_known_cmdr_state.is_docked_on_own_carrer
    cmdr_config,  \* config[_cmdr_state_save_key] : the persisted DockState
    data_lock,    \* CargoMonitor._data_lock : 0 free, else the consumer holding it
    monitor_lock, \* CargoMonitor._updates_lock : 0 free, else the holder
    consumers,    \* threads started by CargoMonitor._delayed_update
    last          \* the step taken last (observation only)

ledger_vars == <<cargo, last_sync, call_sign, sink, config>>
monitor_vars == <<last_known_cmdr, delayed_update_data, cmdr_state, cmdr_config,
                  data_lock, monitor_lock, consumers>>
vars == <<cargo, last_sync, call_sign, handlers, gui_root, sink, config, now,
          updates_lock, workers, session_ok, main_alive, monitor_vars, last>>

(***************************************************************************)
(* Bounds of the model.                                                    *)
(***************************************************************************)
MaxQty == 2       \* quantities a caller's mutator writes: -1 .. MaxQty
MaxNow == 1       \* the clock runs 0 .. MaxNow
MaxSink == 2      \* notifications waiting in the GUI queue
MaxHandlers == 1  \* registered change handlers
MaxWorkers == 2   \* refresh threads alive at once
MaxLines == 2     \* cargo lines in a remote snapshot
MaxQueue == 3     \* journal events waiting for the consumer
MaxConsumers == 2 \* consumer threads alive at once

None == "<None>"

\* a remote snapshot: name.callsign and the cargo lines
Response(cs, lines) == [callsign |-> cs, cargo |-> lines, rest |-> "end"]

\* a snapshot whose cargo list goes on, after the given lines, with an
\* item that has no "qty"
Malformed(cs, lines) ==
    [callsign |-> cs, cargo |-> lines, rest |-> "no qty"]

(***************************************************************************)
(* CargoKey                                                                *)
(***************************************************************************)
\* str.lower() on the commodity symbols of the model
Lower(s) ==
    CASE s = "Gold" -> "gold"
      [] s = "Tritium" -> "tritium"
      [] OTHER -> s

\* CargoKey.__init__(source: str)
CargoKeyFromStr(source) ==
    [cls |-> "CargoKey",
     fields |-> [commodity |-> Lower(source), stolen |-> "false",
                 mission |-> "false", originSystem |-> "null",
                 qty |-> "null", value |-> "null", locName |-> "null"]]

\* CargoKey.__init__(source: dict): a deep copy of the line, then the
\* overwrites of lines 38-46 (qty is an integer in the line, null in the key)
CargoKeyFromDict(source) ==
    [cls |-> "CargoKey",
     fields |-> [commodity |-> Lower(source.commodity), stolen |-> "false",
                 mission |-> "false", originSystem |-> "null",
                 qty |-> "null", value |-> "null", locName |-> "null"]]

\* a plain str used as a dictionary key: never equal to a CargoKey
\* (CargoKey.__eq__ returns NotImplemented for it)
StrKey(s) == [cls |-> "str", fields |-> [value |-> s]]

\* isinstance(k, CargoKey)
IsCargoKey(k) == k.cls = "CargoKey"

\* CargoKey.to_string : json.dumps(fields, sort_keys=True)
to_string(k) ==
    << <<"commodity", k.fields.commodity>>, <<"locName", k.fields.locName>>,
       <<"mission", k.fields.mission>>,
       <<"originSystem", k.fields.originSystem>>, <<"qty", k.fields.qty>>,
       <<"stolen", k.fields.stolen>>, <<"value", k.fields.value>> >>

\* json.loads of a key string: the dict of its pairs
json_loads_key(s) ==
    [commodity |-> s[1][2], locName |-> s[2][2], mission |-> s[3][2],
     originSystem |-> s[4][2], qty |-> s[5][2], stolen |-> s[6][2],
     value |-> s[7][2]]

(***************************************************************************)
(* CargoTally : dict[CargoKey, int]                                        *)
(***************************************************************************)
EmptyTally == [k \in {} |-> 0]

Get(d, k, default) == IF k \in DOMAIN d THEN d[k] ELSE default

Put(d, k, v) == [x \in DOMAIN d \cup {k} |-> IF x = k THEN v ELSE d[x]]

Del(d, k) == [x \in DOMAIN d \ {k} |-> d[x]]

\* frozenset(cargo.items()); the hash of it is taken to be collision free
Items(d) == {<<k, d[k]>> : k \in DOMAIN d}

\* CargoTally.to_json_dict
to_json_dict(d) ==
    [s \in {to_string(k) : k \in DOMAIN d} |->
        d[CHOOSE k \in DOMAIN d : to_string(k) = s]]

\* CargoTally.from_json_dict: each key string is parsed and given to CargoKey,
\* and data[key] = v is executed in the iteration order of d.  When two
\* strings give one key the later one wins; the mapping d of the model has
\* no order, so every order is a possible outcome (one tally when no two
\* strings give the same key)
from_json_dict(d) ==
    LET key(s) == CargoKeyFromDict(json_loads_key(s))
        keys == {key(s) : s \in DOMAIN d}
    IN  {t \in [keys -> {d[s] : s \in DOMAIN d}] :
            \A k \in keys : \E s \in DOMAIN d : key(s) = k /\ d[s] = t[k]}

(***************************************************************************)
(* Timestamps and the persisted blob                                       *)
(***************************************************************************)
NoSync == [kind |-> "None", t |-> 0]

\* datetime.now(utc).replace(microsecond=0).isoformat()
IsoNow == [kind |-> "iso", t |-> now]

MissingBlob ==
    [state |-> "missing", cargo |-> EmptyTally, lastSync |-> NoSync,
     callSign |-> None]

\* a stored string json.loads rejects
GarbageBlob ==
    [state |-> "garbage", cargo |-> EmptyTally, lastSync |-> NoSync,
     callSign |-> None]

\* the JSON object _save_not_locked writes
BlobWithoutSync(c, ls, cs) ==
    [state |-> "json", cargo |-> to_json_dict(c), lastSync |-> NoSync,
     callSign |-> cs]

Blob(c, ls, cs) ==
    [state |-> "json", cargo |-> to_json_dict(c), lastSync |-> ls,
     callSign |-> cs]

(***************************************************************************)
(* Callbacks handed to inventory(): the writes the closure makes to the    *)
(* mapping, the value it returns, and whether it raises after the writes.  *)
(***************************************************************************)
RunStep(d, st) ==
    CASE st.op = "set" -> Put(d, st.key, st.n)
      [] st.op = "add" -> Put(d, st.key, Get(d, st.key, 0) + st.n)
      [] st.op = "del" -> Del(d, st.key)

RECURSIVE RunSteps(_, _)
RunSteps(steps, d) ==
    IF steps = <<>> THEN d
    ELSE RunSteps(Tail(steps), RunStep(d, Head(steps)))

Callback(steps, res, raises) ==
    [steps |-> steps, res |-> res, raises |-> raises]

ReadOnly == Callback(<<>>, FALSE, FALSE)

CallerKeys ==
    {CargoKeyFromStr("gold"), CargoKeyFromStr("tritium"), StrKey("gold")}

\* the mutators an arbitrary caller thread may pass
CallerCallbacks ==
    {Callback(<<[op |-> "set", key |-> k, n |-> n]>>, r, x) :
        k \in CallerKeys, n \in -1 .. MaxQty, r \in BOOLEAN, x \in BOOLEAN}
    \cup {Callback(<<[op |-> "del", key |-> CargoKeyFromStr("gold"), n |-> 0]>>,
                   FALSE, FALSE), ReadOnly}

\* the mutators of the callers in the specification of the notifications
NotifyCallbacks ==
    {Callback(<<[op |-> "set", key |-> k, n |-> n]>>, FALSE, x) :
        k \in CallerKeys, n \in 0 .. MaxQty, x \in BOOLEAN}
    \cup {Callback(<<[op |-> "del", key |-> CargoKeyFromStr("gold"), n |-> 0]>>,
                   FALSE, FALSE), ReadOnly}

(***************************************************************************)
(* Notification                                                            *)
(***************************************************************************)
\* _signal_cargo_was_changed: every handler is handed to gui_root.after
SignalledTwice(s) == IF gui_root # None THEN s \o handlers \o handlers ELSE s

SignalledSink(s) == IF gui_root # None THEN s \o handlers ELSE s

SinkRoom == gui_root # None => Len(sink) + Len(handlers) <= MaxSink

(***************************************************************************)
(* FleetCarrierCargo.inventory                                             *)
(***************************************************************************)
\* lines 233-239: the entries kept after the callback
KeepEntryNotNegative(k, v) == IsCargoKey(k) /\ v >= 0

KeepEntry(k, v) == IsCargoKey(k) /\ v > 0

FilterValid(d) == [k \in {x \in DOMAIN d : KeepEntry(x, d[x])} |-> d[k]]

\* line 244: the hashes of the items before and after differ
ContentChangedAlways(old_hash, new_hash) == TRUE

ContentChanged(old_hash, new_hash) == old_hash # new_hash

\* the effect of inventory(callback) on the ledger, the blob and the sink
inventory(callback) ==
    LET old_hash == Items(cargo)
        mutated == RunSteps(callback.steps, cargo)
        kept == FilterValid(mutated)
        new_hash == Items(kept)
    IN  IF callback.raises
        THEN \* the exception leaves the with-block: nothing after line 222 runs
             /\ cargo' = mutated
             /\ UNCHANGED <<last_sync, call_sign, sink, config>>
        ELSE /\ ContentChanged(old_hash, new_hash) => SinkRoom
             /\ cargo' = kept
             /\ IF callback.res
                THEN /\ last_sync' = IsoNow
                     /\ config' = Blob(kept, IsoNow, call_sign)
                ELSE UNCHANGED <<last_sync, config>>
             /\ sink' = IF ContentChanged(old_hash, new_hash)
                        THEN SignalledSink(sink) ELSE sink
             /\ UNCHANGED call_sign

\* what the call did, for the record of the last step
InventoryTags(callback) ==
    LET mutated == RunSteps(callback.steps, cargo)
        kept == FilterValid(mutated)
    IN  (IF mutated # cargo THEN {"wrote"} ELSE {})
        \cup (IF kept = mutated THEN {}
              ELSE IF callback.raises THEN {"left"} ELSE {"dropped"})
        \cup (IF ~callback.raises /\ Items(kept) # Items(cargo)
              THEN {"changed"} ELSE {})
        \cup (IF ~callback.raises /\ callback.res THEN {"res"} ELSE {})

Inventory(callback) ==
    /\ inventory(callback)
    /\ last' = [op |-> "inventory", ok |-> ~callback.raises,
                tags |-> InventoryTags(callback)]
    /\ UNCHANGED <<handlers, gui_root, now, updates_lock, workers, session_ok,
                   main_alive,
                   monitor_vars>>

(***************************************************************************)
(* load / save                                                             *)
(***************************************************************************)
\* FleetCarrierCargo.load
Load ==
    /\ IF config.state # "json"
       THEN UNCHANGED ledger_vars /\ last' = [op |-> "load", ok |-> FALSE, tags |-> {}]
       ELSE /\ SinkRoom
            /\ cargo' \in from_json_dict(config.cargo)
            /\ last_sync' = config.lastSync
            /\ call_sign' = config.callSign
            /\ sink' = SignalledSink(sink)
            /\ UNCHANGED config
            /\ last' = [op |-> "load", ok |-> TRUE, tags |-> {}]
    /\ UNCHANGED <<handlers, gui_root, now, updates_lock, workers, session_ok,
                   main_alive,
                   monitor_vars>>

\* FleetCarrierCargo._save_not_locked: to_string fails on a key that is no
\* CargoKey, and then nothing is written
CanSave(d) == \A k \in DOMAIN d : IsCargoKey(k)

\* FleetCarrierCargo.save
Save ==
    /\ IF CanSave(cargo)
       THEN config' = Blob(cargo, last_sync, call_sign)
       ELSE UNCHANGED config
    /\ last' = [op |-> "save", ok |-> CanSave(cargo), tags |-> {}]
    /\ UNCHANGED <<cargo, last_sync, call_sign, sink, handlers, gui_root, now,
                   updates_lock, workers, session_ok, main_alive,
                   monitor_vars>>

(***************************************************************************)
(* Handlers, the GUI root, the GUI thread, the clock                       *)
(***************************************************************************)
HandlerIds == {"h1", "h2"}
GuiRoots == {"root1", "root2"}

\* FleetCarrierCargo.add_on_cargo_change_handler
AddOnCargoChangeHandler(handler) ==
    /\ Len(handlers) < MaxHandlers
    /\ handlers' = Append(handlers, handler)
    /\ last' = [op |-> "add_handler", ok |-> TRUE, tags |-> {}]
    /\ UNCHANGED <<cargo, last_sync, call_sign, gui_root, sink, config, now,
                   updates_lock, workers, session_ok, main_alive,
                   monitor_vars>>

\* FleetCarrierCargo.set_gui_root_once
SetGuiRootOnce(root) ==
    /\ gui_root' = IF gui_root = None THEN root ELSE gui_root
    /\ last' = [op |-> "set_gui_root", ok |-> gui_root \in {None, root}, tags |-> {}]
    /\ UNCHANGED <<cargo, last_sync, call_sign, handlers, sink, config, now,
                   updates_lock, workers, session_ok, main_alive,
                   monitor_vars>>

\* the GUI thread runs the callback at the head of its queue
GuiRun ==
    /\ sink # <<>>
    /\ sink' = Tail(sink)
    /\ last' = [op |-> "gui_run", ok |-> TRUE, tags |-> {}]
    /\ UNCHANGED <<cargo, last_sync, call_sign, handlers, gui_root, config, now,
                   updates_lock, workers, session_ok, main_alive,
                   monitor_vars>>

Tick ==
    /\ now < MaxNow
    /\ now' = now + 1
    /\ last' = [op |-> "tick", ok |-> TRUE, tags |-> {}]
    /\ UNCHANGED <<cargo, last_sync, call_sign, handlers, gui_root, sink,
                   config, updates_lock, workers, session_ok, main_alive,
                   monitor_vars>>

(***************************************************************************)
(* The remote snapshot (CAPI response)                                     *)
(***************************************************************************)
Absent == "<absent>"   \* the response has no name.callsign: a KeyError

Line(c, n, st, ms, os) ==
    [commodity |-> c, qty |-> n, stolen |-> st, mission |-> ms,
     originSystem |-> os, value |-> "100", locName |-> c]

CapiLines ==
    {Line("gold", 1, "false", "false", "null"),
     Line("gold", 2, "true", "false", "Sol"),
     Line("Tritium", 0 - 1, "false", "true", "null")}

LineSeqs == UNION {[1 .. n -> CapiLines] : n \in 0 .. MaxLines}

Responses ==
    {Response("ABC", lines) : lines \in LineSeqs}
    \cup {Response(cs, <<Line("gold", 1, "false", "false", "null")>>) :
            cs \in {"", None, Absent}}

\* the snapshots of a server that never answers well: no call sign, or a
\* cargo list with an item that has no "qty"
FailingResponses ==
    {Response(Absent, <<Line("gold", 1, "false", "false", "null")>>),
     Malformed("ABC", <<>>),
     Malformed("ABC", <<Line("gold", 1, "false", "false", "null")>>)}

\* how _load_from_capi ends: "raised" (KeyError at line 331, nothing
\* assigned), "aborted" (no call sign, return inside the with-block),
\* "broken" (KeyError at line 340 or 342 on the item without "qty", after
\* the assignments of 331 and 336 and the lines before it), "parsed"
CapiOutcome(data) ==
    IF data.callsign = Absent THEN "raised"
    ELSE IF data.callsign \in {"", None} THEN "aborted"
    ELSE IF data.rest = "no qty" THEN "broken"
    ELSE "parsed"

\* the provenance fields of a cargo line
Provenance(item) == <<item.stolen, item.mission, item.originSystem>>

\* what kind of snapshot was parsed, for the record of the last step
CapiTags(data) ==
    LET n == Len(data.cargo)
        pairs == {p \in (1 .. n) \X (1 .. n) : p[1] < p[2]}
    IN  {CapiOutcome(data)}
        \cup (IF \E p \in pairs :
                    data.cargo[p[1]].commodity = data.cargo[p[2]].commodity
               THEN {"duplicate"} ELSE {})
        \cup (IF \E p \in pairs :
                    /\ data.cargo[p[1]].commodity = data.cargo[p[2]].commodity
                    /\ Provenance(data.cargo[p[1]]) # Provenance(data.cargo[p[2]])
               THEN {"provenance"} ELSE {})

\* _load_from_capi, lines 337-342: one pass of the loop body
AddLineOverwrite(d, item) == Put(d, CargoKeyFromDict(item), item.qty)

AddLine(d, item) ==
    LET key == CargoKeyFromDict(item)
    IN  IF key \in DOMAIN d
        THEN Put(d, key, d[key] + item.qty)
        ELSE Put(d, key, item.qty)

\* _load_from_capi, lines 336-342: the tally built from the response lines
RECURSIVE ParseLines(_, _)
ParseLines(lines, d) ==
    IF lines = <<>> THEN d
    ELSE ParseLines(Tail(lines), AddLine(d, Head(lines)))

\* _load_from_capi, lines 330-344: the part under _cargo_lock
load_from_capi_locked(data) ==
    CASE CapiOutcome(data) = "raised" ->
            UNCHANGED <<cargo, last_sync, call_sign, config>>
      [] CapiOutcome(data) = "aborted" ->
            /\ call_sign' = data.callsign
            /\ UNCHANGED <<cargo, last_sync, config>>
      [] CapiOutcome(data) = "broken" ->
            /\ call_sign' = data.callsign
            /\ cargo' = ParseLines(data.cargo, EmptyTally)
            /\ UNCHANGED <<last_sync, config>>
      [] CapiOutcome(data) = "parsed" ->
            LET parsed == ParseLines(data.cargo, EmptyTally)
            IN  /\ call_sign' = data.callsign
                /\ cargo' = parsed
                /\ last_sync' = IsoNow
                /\ config' = Blob(parsed, IsoNow, data.callsign)

(***************************************************************************)
(* Refresh workers                                                         *)
(***************************************************************************)
attempts_count == 30

\* a step inside a worker thread that reads no snapshot
WorkerStep == [op |-> "worker", ok |-> TRUE, tags |-> {}]

WorkerIds == 1 .. MaxWorkers

IdleWorker == [kind |-> "none", pc |-> "none", attempt |-> 0]

FreeSlots == {w \in WorkerIds : workers[w].kind = "none"}

\* a new thread takes the lowest free slot
NewSlot == CHOOSE w \in FreeSlots : \A v \in FreeSlots : w <= v

\* n more update_from_server threads, each in the lowest free slot
StartedNever(ws, n) == ws

RECURSIVE Started(_, _)
Started(ws, n) ==
    IF n = 0 THEN ws
    ELSE LET free == {w \in WorkerIds : ws[w].kind = "none"}
             slot == CHOOSE w \in free : \A v \in free : w <= v
         IN  Started([ws EXCEPT ![slot] = [kind |-> "update", pc |-> "acquire",
                                           attempt |-> 0]], n - 1)

\* pcs at which an update_from_server worker is inside its retry loop
InRetryLoop(w) ==
    workers[w].kind = "update" /\ workers[w].pc \in {"loop", "signal"}

\* FleetCarrierCargo.is_updating_from_server
is_updating_from_server == updates_lock # 0

\* update_from_server: threading.Thread(target=updater).start()
UpdateFromServer ==
    /\ FreeSlots # {}
    /\ workers' = [workers EXCEPT
                     ![NewSlot] = [kind |-> "update", pc |-> "acquire",
                                   attempt |-> 0]]
    /\ last' = [op |-> "update_from_server", ok |-> TRUE, tags |-> {}]
    /\ UNCHANGED <<cargo, last_sync, call_sign, handlers, gui_root, sink,
                   config, now, updates_lock, session_ok, main_alive,
                   monitor_vars>>

\* updater, lines 379-380: _updates_lock.acquire(blocking=False)
TryAcquireUnchecked(w) == TRUE

TryAcquire(w) == updates_lock = 0

UpdaterAcquire(w) ==
    /\ workers[w].kind = "update" /\ workers[w].pc = "acquire"
    /\ IF TryAcquire(w)
       THEN /\ updates_lock' = w
            /\ workers' = [workers EXCEPT ![w].pc = "loop"]
            /\ last' = WorkerStep
       ELSE /\ UNCHANGED updates_lock
            /\ workers' = [workers EXCEPT ![w] = IdleWorker]
            /\ last' = [op |-> "updater_returned", ok |-> FALSE, tags |-> {}]
    /\ UNCHANGED <<cargo, last_sync, call_sign, handlers, gui_root, sink,
                   config, now, session_ok, main_alive,
                   monitor_vars>>

\* updater, lines 386-417: one pass of the for-loop, the time.sleep that ends
\* a failed pass included (the sleeping thread touches nothing), and the
\* end of the loop after attempts_count passes
UpdaterExhausted(w) ==
    /\ workers[w].kind = "update" /\ workers[w].pc = "loop"
    /\ workers[w].attempt = attempts_count
    /\ workers' = [workers EXCEPT ![w].pc = "release"]
    /\ last' = [op |-> "attempts_exhausted", ok |-> FALSE, tags |-> {}]
    /\ UNCHANGED <<cargo, last_sync, call_sign, handlers, gui_root, sink,
                   config, now, updates_lock, session_ok, main_alive,
                   monitor_vars>>

UpdaterMainDeadNoFinally(w) ==
    /\ workers[w].kind = "update" /\ workers[w].pc = "loop"
    /\ workers[w].attempt < attempts_count
    /\ ~main_alive
    /\ workers' = [workers EXCEPT ![w] = IdleWorker]
    /\ last' = WorkerStep
    /\ UNCHANGED <<cargo, last_sync, call_sign, handlers, gui_root, sink,
                   config, now, updates_lock, session_ok, main_alive,
                   monitor_vars>>

UpdaterMainDead(w) ==
    /\ workers[w].kind = "update" /\ workers[w].pc = "loop"
    /\ workers[w].attempt < attempts_count
    /\ ~main_alive
    /\ workers' = [workers EXCEPT ![w].pc = "release"]
    /\ last' = WorkerStep
    /\ UNCHANGED <<cargo, last_sync, call_sign, handlers, gui_root, sink,
                   config, now, updates_lock, session_ok, main_alive,
                   monitor_vars>>

UpdaterNotReady(w) ==
    /\ workers[w].kind = "update" /\ workers[w].pc = "loop"
    /\ workers[w].attempt < attempts_count
    /\ main_alive /\ ~session_ok
    /\ workers' = [workers EXCEPT ![w].attempt = @ + 1]
    /\ last' = WorkerStep
    /\ UNCHANGED <<cargo, last_sync, call_sign, handlers, gui_root, sink,
                   config, now, updates_lock, session_ok, main_alive,
                   monitor_vars>>

\* an exception outside the inner try (lines 387-396) leaves the loop
\* through the finally
UpdaterUnexpected(w) ==
    /\ workers[w].kind = "update" /\ workers[w].pc = "loop"
    /\ workers[w].attempt < attempts_count
    /\ workers' = [workers EXCEPT ![w].pc = "release"]
    /\ last' = [op |-> "unexpected_error", ok |-> FALSE, tags |-> {}]
    /\ UNCHANGED <<cargo, last_sync, call_sign, handlers, gui_root, sink,
                   config, now, updates_lock, session_ok, main_alive,
                   monitor_vars>>

\* lines 402-405 raise: the request failed
UpdaterFetchFailed(w) ==
    /\ workers[w].kind = "update" /\ workers[w].pc = "loop"
    /\ workers[w].attempt < attempts_count
    /\ main_alive /\ session_ok
    /\ workers' = [workers EXCEPT ![w].attempt = @ + 1]
    /\ last' = WorkerStep
    /\ UNCHANGED <<cargo, last_sync, call_sign, handlers, gui_root, sink,
                   config, now, updates_lock, session_ok, main_alive,
                   monitor_vars>>

\* lines 402-406: the request answers with data, _load_from_capi parses it
UpdaterFetch(w, data) ==
    /\ workers[w].kind = "update" /\ workers[w].pc = "loop"
    /\ workers[w].attempt < attempts_count
    /\ main_alive /\ session_ok
    /\ load_from_capi_locked(data)
    /\ workers' =
         CASE CapiOutcome(data) \in {"raised", "broken"} ->
                [workers EXCEPT ![w].attempt = @ + 1]
           [] CapiOutcome(data) = "aborted" ->
                [workers EXCEPT ![w].pc = "release"]
           [] CapiOutcome(data) = "parsed" ->
                [workers EXCEPT ![w].pc = "signal"]
    /\ last' = [op |-> "load_from_capi", ok |-> CapiOutcome(data) = "parsed",
                tags |-> CapiTags(data)]
    /\ UNCHANGED <<handlers, gui_root, sink, now, updates_lock, session_ok,
                   main_alive,
                   monitor_vars>>

\* _load_from_capi, line 345: the signal after _cargo_lock is released
WorkerSignal(w) ==
    /\ workers[w].pc = "signal"
    /\ SinkRoom
    /\ sink' = SignalledSink(sink)
    /\ workers' = [workers EXCEPT ![w].pc = "release"]
    /\ last' = WorkerStep
    /\ UNCHANGED <<cargo, last_sync, call_sign, handlers, gui_root, config,
                   now, updates_lock, session_ok, main_alive,
                   monitor_vars>>

\* the finally of updater / the end of the with-block of sync_to_capi
WorkerRelease(w) ==
    /\ workers[w].pc = "release"
    /\ updates_lock' = 0
    /\ workers' = [workers EXCEPT ![w] = IdleWorker]
    /\ last' = WorkerStep
    /\ UNCHANGED <<cargo, last_sync, call_sign, handlers, gui_root, sink,
                   config, now, session_ok, main_alive,
                   monitor_vars>>

\* sync_to_capi: threading.Thread(target=updater).start()
SyncToCapi ==
    /\ FreeSlots # {}
    /\ workers' = [workers EXCEPT
                     ![NewSlot] = [kind |-> "sync", pc |-> "acquire",
                                   attempt |-> 0]]
    /\ last' = [op |-> "sync_to_capi", ok |-> TRUE, tags |-> {}]
    /\ UNCHANGED <<cargo, last_sync, call_sign, handlers, gui_root, sink,
                   config, now, updates_lock, session_ok, main_alive,
                   monitor_vars>>

\* sync_to_capi.updater: with _updates_lock (a blocking acquire)
SyncAcquire(w) ==
    /\ workers[w].kind = "sync" /\ workers[w].pc = "acquire"
    /\ updates_lock = 0
    /\ updates_lock' = w
    /\ workers' = [workers EXCEPT ![w].pc = "load"]
    /\ last' = WorkerStep
    /\ UNCHANGED <<cargo, last_sync, call_sign, handlers, gui_root, sink,
                   config, now, session_ok, main_alive,
                   monitor_vars>>

\* sync_to_capi.updater: _load_from_capi(data); the data handed to
\* sync_to_capi is seen by no other thread before this step reads it
SyncLoad(w, data) ==
    /\ workers[w].kind = "sync" /\ workers[w].pc = "load"
    /\ load_from_capi_locked(data)
    /\ workers' = [workers EXCEPT
                     ![w].pc = IF CapiOutcome(data) = "parsed"
                               THEN "signal" ELSE "release"]
    /\ last' = [op |-> "load_from_capi", ok |-> CapiOutcome(data) = "parsed",
                tags |-> CapiTags(data)]
    /\ UNCHANGED <<handlers, gui_root, sink, now, updates_lock, session_ok,
                   main_alive,
                   monitor_vars>>

\* the companion session logs in or drops
SessionChange ==
    /\ session_ok' = ~session_ok
    /\ last' = [op |-> "session", ok |-> TRUE, tags |-> {}]
    /\ UNCHANGED <<cargo, last_sync, call_sign, handlers, gui_root, sink,
                   config, now, updates_lock, workers, main_alive,
                   monitor_vars>>

\* the host shuts down
MainThreadExit ==
    /\ main_alive
    /\ main_alive' = FALSE
    /\ last' = [op |-> "main_exit", ok |-> TRUE, tags |-> {}]
    /\ UNCHANGED <<cargo, last_sync, call_sign, handlers, gui_root, sink,
                   config, now, updates_lock, workers, session_ok,
                   monitor_vars>>

(***************************************************************************)
(* FleetCarrierCargo.is_sync_stale                                         *)
(***************************************************************************)
IdlePeriodOfLogin == 3600 * 12

_UPDATE_PERIOD_SECONDS_DUE_GAMEPLAY == 7200

LoginMaxAge == 3600 * 12

\* lines 161-169 applied to the value read under _cargo_lock: None, "" and
\* a string fromisoformat rejects give True.  last_sync holds whole seconds
\* (replace(microsecond=0), line 305) while datetime.now() at line 165 has
\* microseconds: the clock of the model counts whole seconds and microsecond
\* tells whether the reading of line 165 has a fraction of a second on top
is_sync_stale_inclusive(sync, max_age_seconds, microsecond) ==
    IF sync.kind # "iso" THEN TRUE ELSE now - sync.t >= max_age_seconds

is_sync_stale(sync, max_age_seconds, microsecond) ==
    IF sync.kind # "iso" THEN TRUE
    ELSE \/ now - sync.t > max_age_seconds
         \/ now - sync.t = max_age_seconds /\ microsecond > 0

\* the limits the callers pass: the default of line 151, the idle period of
\* the journal engine and the 12 hours of a login
MaxAges == {3600, _UPDATE_PERIOD_SECONDS_DUE_GAMEPLAY, LoginMaxAge}

\* FleetCarrierCargo.is_sync_stale(max_age_seconds) called by any thread
IsSyncStale(max_age_seconds, microsecond) ==
    /\ last' = [op |-> "is_sync_stale",
                ok |-> is_sync_stale(last_sync, max_age_seconds, microsecond),
                tags |-> {ToString(max_age_seconds)}
                         \cup (IF microsecond > 0 THEN {"microsecond"} ELSE {})]
    /\ UNCHANGED <<cargo, last_sync, call_sign, handlers, gui_root, sink,
                   config, now, updates_lock, workers, session_ok, main_alive,
                   monitor_vars>>

(***************************************************************************)
(* FleetCarrierCargo.load_or_update                                        *)
(***************************************************************************)
\* line 429, left operand: load().  When it fails update_from_server() is
\* called at once (line 430); when it succeeds _cargo_lock is released and
\* the call goes on to is_sync_stale, which takes the lock again.  The slot
\* keeps the value load() assigned to _last_sync (observation only).
LoadOrUpdate ==
    /\ FreeSlots # {}
    /\ IF config.state # "json"
       THEN /\ workers' = Started(workers, 1)
            /\ UNCHANGED ledger_vars
            /\ last' = [op |-> "load_or_update", ok |-> FALSE,
                        tags |-> {"update_from_server"}]
       ELSE /\ SinkRoom
            /\ cargo' \in from_json_dict(config.cargo)
            /\ last_sync' = config.lastSync
            /\ call_sign' = config.callSign
            /\ sink' = SignalledSink(sink)
            /\ UNCHANGED config
            /\ workers' = [workers EXCEPT
                             ![NewSlot] = [kind |-> "load_or_update",
                                           pc |-> "is_sync_stale",
                                           attempt |-> 0,
                                           loaded |-> config.lastSync]]
            /\ last' = [op |-> "load", ok |-> TRUE, tags |-> {}]
    /\ UNCHANGED <<handlers, gui_root, now, updates_lock, session_ok,
                   main_alive, monitor_vars>>

\* line 429, right operand, and line 430
LoadOrUpdateCheck(w) ==
    /\ workers[w].kind = "load_or_update"
    /\ workers' =
         [workers EXCEPT
            ![w] = IF is_sync_stale(last_sync, LoginMaxAge, 0)
                   THEN [kind |-> "update", pc |-> "acquire", attempt |-> 0]
                   ELSE IdleWorker]
    /\ last' = [op |-> "load_or_update", ok |-> TRUE,
                tags |-> IF is_sync_stale(last_sync, LoginMaxAge, 0)
                         THEN {"update_from_server"} ELSE {}]
    /\ UNCHANGED <<cargo, last_sync, call_sign, handlers, gui_root, sink,
                   config, now, updates_lock, session_ok, main_alive,
                   monitor_vars>>

(***************************************************************************)
(* CargoMonitor: journal events                                            *)
(***************************************************************************)
EVENT_HANDLERS ==
    {"Docked", "Undocked", "MarketBuy", "MarketSell", "CargoTransfer"}

\* JournalContext: the station argument, state["StationName"] and the entry.
\* applied is no field of the source: it records, for the properties, that
\* the handler of this queued context was called and returned
Ctx(event, station, station_type, type, count, transfers) ==
    [station |-> station, state_station |-> station,
     entry |-> [event |-> event, StationType |-> station_type, Type |-> type,
                Count |-> count, Transfers |-> transfers],
     applied |-> FALSE]

Transfer(type, count, direction) ==
    [Type |-> type, Count |-> count, Direction |-> direction]

DockedOwn == Ctx("Docked", "ABC", "FleetCarrier", "", 0, <<>>)
DockedOther == Ctx("Docked", "XYZ", "FleetCarrier", "", 0, <<>>)
\* a station that is no fleet carrier and bears the name of the call sign
DockedStation == Ctx("Docked", "ABC", "Coriolis", "", 0, <<>>)
Undocked == Ctx("Undocked", None, "", "", 0, <<>>)
MarketBuy == Ctx("MarketBuy", "ABC", "", "gold", 1, <<>>)
MarketSell == Ctx("MarketSell", "ABC", "", "Gold", 1, <<>>)
TransferToShip ==
    Ctx("CargoTransfer", "ABC", "", "", 0, <<Transfer("tritium", 2, "toship")>>)
TransferBoth ==
    Ctx("CargoTransfer", "ABC", "", "", 0,
        <<Transfer("Gold", 1, "tocarrier"), Transfer("tritium", 1, "toship")>>)
Unrecognized == Ctx("FSDJump", None, "", "", 0, <<>>)
\* a MarketSell entry without "Type": entry["Type"] is a KeyError
BrokenSell == Ctx("MarketSell", "ABC", "", Absent, 1, <<>>)

RecognizedEvents ==
    {DockedOwn, DockedOther, Undocked, MarketBuy, MarketSell, TransferToShip,
     TransferBoth}

\* the persisted DockState
MissingCmdrState == [state |-> "missing", docked |-> FALSE]

\* PersistentCmdrState.save
SavedCmdrState(docked) == [state |-> "json", docked |-> docked]

\* JournalContext.is_own_carrier: the comparison made inside the callback
is_own_carrier(ctx) ==
    /\ ctx.station \notin {None, ""}
    /\ (call_sign = ctx.station \/ call_sign = ctx.state_station)

\* handle_market_buy.process_buy: the key is the lower-cased str
process_buy(ctx) ==
    IF ctx.entry.Type = Absent THEN Callback(<<>>, FALSE, TRUE)
    ELSE
    Callback(<<[op |-> "add", key |-> StrKey(Lower(ctx.entry.Type)),
                n |-> 0 - ctx.entry.Count]>>, TRUE, FALSE)

\* handle_market_sell.process_sell
process_sell(ctx) ==
    IF ctx.entry.Type = Absent THEN Callback(<<>>, FALSE, TRUE)
    ELSE
    Callback(<<[op |-> "add", key |-> StrKey(Lower(ctx.entry.Type)),
                n |-> ctx.entry.Count]>>, TRUE, FALSE)

\* handle_cargo_transfer.process_transfers, lines 265-272
TransferStep(t) ==
    [op |-> "add", key |-> StrKey(Lower(t.Type)),
     n |-> IF t.Direction = "toship" THEN 0 - t.Count
           ELSE IF t.Direction = "tocarrier" THEN t.Count ELSE 0]

process_transfers(ctx) ==
    Callback([i \in 1 .. Len(ctx.entry.Transfers) |->
                TransferStep(ctx.entry.Transfers[i])], TRUE, FALSE)

\* PersistentCmdrState.save when the value changed
SaveAlways(old, new) == cmdr_config' = SavedCmdrState(new)

SaveIfChanged(old, new) ==
    cmdr_config' = IF old # new THEN SavedCmdrState(new) ELSE cmdr_config

\* CargoMonitor.handle_docked
handle_docked(ctx) ==
    LET fleet_carrier == ctx.entry.StationType = "FleetCarrier"
        asks == fleet_carrier /\ ctx.station \notin {None, ""}
        docked == fleet_carrier /\ is_own_carrier(ctx)
    IN  /\ IF asks THEN inventory(ReadOnly) ELSE UNCHANGED ledger_vars
        /\ cmdr_state' = docked
        /\ SaveIfChanged(cmdr_state, docked)

\* CargoMonitor.handle_undocked
handle_undocked(ctx) ==
    /\ UNCHANGED ledger_vars
    /\ cmdr_state' = FALSE
    /\ SaveIfChanged(cmdr_state, FALSE)

\* CargoMonitor.handle_market_buy
handle_market_buy(ctx) ==
    /\ IF cmdr_state THEN inventory(process_buy(ctx)) ELSE UNCHANGED ledger_vars
    /\ UNCHANGED <<cmdr_state, cmdr_config>>

\* CargoMonitor.handle_market_sell
handle_market_sell(ctx) ==
    /\ IF cmdr_state THEN inventory(process_sell(ctx)) ELSE UNCHANGED ledger_vars
    /\ UNCHANGED <<cmdr_state, cmdr_config>>

\* CargoMonitor.handle_cargo_transfer
handle_cargo_transfer(ctx) ==
    /\ cmdr_state' = TRUE
    /\ cmdr_config' = IF ~cmdr_state THEN SavedCmdrState(TRUE) ELSE cmdr_config
    /\ inventory(process_transfers(ctx))

\* CargoMonitor.EVENT_HANDLERS[event](ctx)
Handle(ctx) ==
    CASE ctx.entry.event = "Docked" -> handle_docked(ctx)
      [] ctx.entry.event = "Undocked" -> handle_undocked(ctx)
      [] ctx.entry.event = "MarketBuy" -> handle_market_buy(ctx)
      [] ctx.entry.event = "MarketSell" -> handle_market_sell(ctx)
      [] ctx.entry.event = "CargoTransfer" -> handle_cargo_transfer(ctx)

\* the handler leaves with the exception of its inventory() callback
HandlerRaises(ctx) ==
    /\ ctx.entry.event \in {"MarketBuy", "MarketSell"}
    /\ cmdr_state
    /\ ctx.entry.Type = Absent

(***************************************************************************)
(* CargoMonitor: producer and consumer                                     *)
(***************************************************************************)
ConsumerIds == 1 .. MaxConsumers

IdleConsumer == [pc |-> "none", idx |-> 0]

FreeConsumers == {c \in ConsumerIds : consumers[c].pc = "none"}

\* CargoMonitor._is_delayed_updating
_is_delayed_updating == monitor_lock # 0

\* CargoMonitor.process_journal_entry, under _data_lock
ProcessJournalEntry(cmdr, ctx) ==
    LET first == last_known_cmdr = ""
        switched == ~first /\ last_known_cmdr # cmdr
        \* _cmdrLoggedIn: FleetCarrierCargo.load() returned True
        loads == first /\ config.state = "json"
        sync == IF loads THEN config.lastSync ELSE last_sync
        docked == IF switched THEN FALSE
                  ELSE IF first /\ cmdr_config.state = "json"
                       THEN cmdr_config.docked
                       ELSE cmdr_state
        on_login == \/ switched
                    \/ first /\ (~loads \/ is_sync_stale(sync, LoginMaxAge, 0))
        recognized == ctx.entry.event \in EVENT_HANDLERS
        on_idle == /\ ~recognized
                   /\ is_sync_stale(sync, _UPDATE_PERIOD_SECONDS_DUE_GAMEPLAY, 0)
                   /\ ~docked
        starts == (IF on_login THEN 1 ELSE 0) + (IF on_idle THEN 1 ELSE 0)
        queue == IF first \/ switched THEN <<>> ELSE delayed_update_data
    IN  /\ main_alive
        /\ data_lock = 0
        /\ Cardinality(FreeSlots) >= starts
        /\ IF loads
           THEN /\ SinkRoom
                /\ cargo' \in from_json_dict(config.cargo)
                /\ last_sync' = config.lastSync
                /\ call_sign' = config.callSign
                /\ sink' = SignalledSink(sink)
                /\ UNCHANGED config
           ELSE UNCHANGED ledger_vars
        /\ cmdr_state' = docked
        /\ last_known_cmdr' = cmdr
        /\ workers' = Started(workers, starts)
        /\ IF recognized
           THEN /\ Len(queue) < MaxQueue
                /\ delayed_update_data' = Append(queue, ctx)
                /\ IF _is_delayed_updating
                   THEN UNCHANGED consumers
                   ELSE /\ FreeConsumers # {}
                        /\ consumers' =
                             [consumers EXCEPT
                                ![CHOOSE c \in FreeConsumers :
                                    \A v \in FreeConsumers : c <= v] =
                                  [pc |-> "acquire", idx |-> 0]]
           ELSE /\ delayed_update_data' = queue
                /\ UNCHANGED consumers
        /\ last' = [op |-> "journal_entry", ok |-> recognized, tags |-> {}]
        /\ UNCHANGED <<handlers, gui_root, now, updates_lock, session_ok,
                       main_alive, cmdr_config, data_lock, monitor_lock>>

ConsumerStep == [op |-> "consumer", ok |-> TRUE, tags |-> {}]

\* _delayed_update.updater, lines 125-126
ConsumerTryAcquireUnchecked(c) == TRUE

ConsumerTryAcquire(c) == monitor_lock = 0

ConsumerAcquire(c) ==
    /\ consumers[c].pc = "acquire"
    /\ IF ConsumerTryAcquire(c)
       THEN /\ monitor_lock' = c
            /\ consumers' = [consumers EXCEPT ![c].pc = "loop"]
       ELSE /\ UNCHANGED monitor_lock
            /\ consumers' = [consumers EXCEPT ![c] = IdleConsumer]
    /\ last' = ConsumerStep
    /\ UNCHANGED <<cargo, last_sync, call_sign, handlers, gui_root, sink,
                   config, now, updates_lock, workers, session_ok, main_alive,
                   last_known_cmdr, delayed_update_data, cmdr_state,
                   cmdr_config, data_lock>>

\* updater, lines 129-134: a refresh is in progress, the cycle is skipped
ConsumerDefer(c) ==
    /\ consumers[c].pc = "loop"
    /\ main_alive
    /\ is_updating_from_server
    /\ last' = [op |-> "consumer_defer", ok |-> TRUE, tags |-> {}]
    /\ UNCHANGED <<cargo, last_sync, call_sign, handlers, gui_root, sink,
                   config, now, updates_lock, workers, session_ok, main_alive,
                   monitor_vars>>

\* updater, lines 129-131, and _apply_all_delayed_updates taking _data_lock
ConsumerBegin(c) ==
    /\ consumers[c].pc = "loop"
    /\ main_alive
    /\ ~is_updating_from_server
    /\ data_lock = 0
    /\ IF delayed_update_data = <<>>
       THEN UNCHANGED <<data_lock, consumers>>
       ELSE /\ data_lock' = c
            /\ consumers' = [consumers EXCEPT ![c] = [pc |-> "apply", idx |-> 1]]
    /\ last' = ConsumerStep
    /\ UNCHANGED <<cargo, last_sync, call_sign, handlers, gui_root, sink,
                   config, now, updates_lock, workers, session_ok, main_alive,
                   last_known_cmdr, delayed_update_data, cmdr_state,
                   cmdr_config, monitor_lock>>

\* _apply_all_delayed_updates: the handler of the next queued event; after
\* the last one the queue is cleared and _data_lock released.  An exception
\* of the handler leaves the with-block before the clear (108), the loop of
\* the updater and, through its finally (136), the thread
ConsumerApply(c) ==
    LET i == consumers[c].idx
        ctx == delayed_update_data[i]
    IN  /\ consumers[c].pc = "apply"
        /\ Handle(ctx)
        /\ IF HandlerRaises(ctx)
           THEN /\ consumers' = [consumers EXCEPT ![c] = IdleConsumer]
                /\ UNCHANGED delayed_update_data
                /\ data_lock' = 0
                /\ monitor_lock' = 0
           ELSE IF i < Len(delayed_update_data)
           THEN /\ consumers' = [consumers EXCEPT ![c].idx = i + 1]
                /\ delayed_update_data' =
                        [delayed_update_data EXCEPT ![i].applied = TRUE]
                /\ UNCHANGED <<data_lock, monitor_lock>>
           ELSE /\ consumers' = [consumers EXCEPT ![c] = [pc |-> "loop", idx |-> 0]]
                /\ delayed_update_data' = <<>>
                /\ data_lock' = 0
                /\ UNCHANGED monitor_lock
        /\ last' = [op |-> ctx.entry.event, ok |-> ~HandlerRaises(ctx),
                    tags |-> IF cmdr_state THEN {"docked"} ELSE {"undocked"}]
        /\ UNCHANGED <<handlers, gui_root, now, updates_lock, workers,
                       session_ok, main_alive, last_known_cmdr>>

\* updater, lines 129 and 135-136: the main thread is gone
ConsumerExit(c) ==
    /\ consumers[c].pc = "loop"
    /\ ~main_alive
    /\ monitor_lock' = 0
    /\ consumers' = [consumers EXCEPT ![c] = IdleConsumer]
    /\ last' = ConsumerStep
    /\ UNCHANGED <<cargo, last_sync, call_sign, handlers, gui_root, sink,
                   config, now, updates_lock, workers, session_ok, main_alive,
                   last_known_cmdr, delayed_update_data, cmdr_state,
                   cmdr_config, data_lock>>

(***************************************************************************)
(* Specifications                                                          *)
(***************************************************************************)
Init ==
    /\ cargo = EmptyTally
    /\ last_sync = NoSync
    /\ call_sign = None
    /\ handlers = <<>>
    /\ gui_root = None
    /\ sink = <<>>
    /\ config = MissingBlob
    /\ now = 0
    /\ updates_lock = 0
    /\ workers = [w \in WorkerIds |-> IdleWorker]
    /\ session_ok = FALSE
    /\ main_alive = TRUE
    /\ last_known_cmdr = ""
    /\ delayed_update_data = <<>>
    /\ cmdr_state = FALSE
    /\ cmdr_config = MissingCmdrState
    /\ data_lock = 0
    /\ monitor_lock = 0
    /\ consumers = [c \in ConsumerIds |-> IdleConsumer]
    /\ last = [op |-> "init", ok |-> TRUE, tags |-> {}]

\* the ledger used by caller threads
Next ==
    \/ \E callback \in CallerCallbacks : Inventory(callback)
    \/ Load
    \/ Save

Spec == Init /\ [][Next]_vars

\* the ledger with a GUI root and change handlers
NextNotify ==
    \/ \E callback \in NotifyCallbacks : Inventory(callback)
    \/ \E handler \in HandlerIds : AddOnCargoChangeHandler(handler)
    \/ \E root \in GuiRoots : SetGuiRootOnce(root)
    \/ GuiRun

SpecNotify == Init /\ [][NextNotify]_vars

\* the refresh workers
NextRefresh ==
    \/ UpdateFromServer
    \/ SyncToCapi
    \/ \E w \in WorkerIds :
        \/ UpdaterAcquire(w)
        \/ UpdaterExhausted(w)
        \/ UpdaterMainDead(w)
        \/ UpdaterNotReady(w)
        \/ UpdaterFetchFailed(w)
        \/ \E data \in Responses : UpdaterFetch(w, data)
        \/ WorkerSignal(w)
        \/ WorkerRelease(w)
        \/ SyncAcquire(w)
        \/ \E data \in Responses : SyncLoad(w, data)
    \/ SessionChange
    \/ MainThreadExit

SpecRefresh == Init /\ [][NextRefresh]_vars

\* the blob a previous run of the plugin left in the settings
PriorBlob ==
    Blob(Put(Put(EmptyTally, CargoKeyFromStr("gold"), 2),
             CargoKeyFromStr("tritium"), 1),
         [kind |-> "iso", t |-> 0], "ABC")

\* the journal delta engine, started on the settings of a previous run
InitMonitor ==
    /\ cargo = EmptyTally
    /\ last_sync = NoSync
    /\ call_sign = None
    /\ handlers = <<>>
    /\ gui_root = None
    /\ sink = <<>>
    /\ config = PriorBlob
    /\ now = 0
    /\ updates_lock = 0
    /\ workers = [w \in WorkerIds |-> IdleWorker]
    /\ session_ok = FALSE
    /\ main_alive = TRUE
    /\ last_known_cmdr = ""
    /\ delayed_update_data = <<>>
    /\ cmdr_state = FALSE
    /\ cmdr_config \in {MissingCmdrState, SavedCmdrState(TRUE)}
    /\ data_lock = 0
    /\ monitor_lock = 0
    /\ consumers = [c \in ConsumerIds |-> IdleConsumer]
    /\ last = [op |-> "init", ok |-> TRUE, tags |-> {}]

NextMonitor ==
    \/ \E ctx \in RecognizedEvents : ProcessJournalEntry("cmdr1", ctx)
    \/ \E c \in ConsumerIds :
        \/ ConsumerAcquire(c)
        \/ ConsumerBegin(c)
        \/ ConsumerApply(c)
        \/ ConsumerExit(c)
    \/ Tick
    \/ MainThreadExit

SpecMonitor == InitMonitor /\ [][NextMonitor]_vars

\* a key that keeps the provenance of the cargo line it is copied from:
\* CargoKey.__init__ up to line 41, before the overwrites of lines 44-46
CopiedKey(item) ==
    [cls |-> "CargoKey",
     fields |-> [commodity |-> Lower(item.commodity), stolen |-> item.stolen,
                 mission |-> item.mission,
                 originSystem |-> item.originSystem,
                 qty |-> "null", value |-> "null", locName |-> "null"]]

CodecKeys ==
    {CopiedKey(Line("gold", 0, "false", "false", "null")),
     CopiedKey(Line("gold", 0, "true", "false", "Sol")),
     CopiedKey(Line("tritium", 0, "false", "false", "null"))}

\* the ledgers the key strings of the blob can describe
CodecLedgers ==
    UNION {[keys -> 1 .. MaxQty] : keys \in SUBSET CodecKeys}

\* save() and load() of a ledger, the round trip through the blob
InitCodec ==
    /\ cargo \in CodecLedgers
    /\ last_sync = NoSync
    /\ call_sign = None
    /\ handlers = <<>>
    /\ gui_root = None
    /\ sink = <<>>
    /\ config = MissingBlob
    /\ now = 0
    /\ updates_lock = 0
    /\ workers = [w \in WorkerIds |-> IdleWorker]
    /\ session_ok = FALSE
    /\ main_alive = TRUE
    /\ last_known_cmdr = ""
    /\ delayed_update_data = <<>>
    /\ cmdr_state = FALSE
    /\ cmdr_config = MissingCmdrState
    /\ data_lock = 0
    /\ monitor_lock = 0
    /\ consumers = [c \in ConsumerIds |-> IdleConsumer]
    /\ last = [op |-> "init", ok |-> TRUE, tags |-> {}]

NextCodec ==
    \/ Save
    \/ Load

SpecCodec == InitCodec /\ [][NextCodec]_vars

\* the values of last_sync a blob can bring: None, "", a string that
\* fromisoformat rejects, a timestamp
StaleSyncs ==
    {NoSync, [kind |-> "empty", t |-> 0], [kind |-> "bad", t |-> 0],
     [kind |-> "iso", t |-> 0], [kind |-> "iso", t |-> 1]}

\* clock readings around the limits
StaleNows ==
    UNION {{m - 1, m, m + 1, m + 2} : m \in MaxAges} \cup {0}

\* is_sync_stale over the values of last_sync and of the clock
InitStale ==
    /\ cargo = EmptyTally
    /\ last_sync \in StaleSyncs
    /\ call_sign = None
    /\ handlers = <<>>
    /\ gui_root = None
    /\ sink = <<>>
    /\ config = MissingBlob
    /\ now \in StaleNows
    /\ updates_lock = 0
    /\ workers = [w \in WorkerIds |-> IdleWorker]
    /\ session_ok = FALSE
    /\ main_alive = TRUE
    /\ last_known_cmdr = ""
    /\ delayed_update_data = <<>>
    /\ cmdr_state = FALSE
    /\ cmdr_config = MissingCmdrState
    /\ data_lock = 0
    /\ monitor_lock = 0
    /\ consumers = [c \in ConsumerIds |-> IdleConsumer]
    /\ last = [op |-> "init", ok |-> TRUE, tags |-> {}]

NextStale ==
    \E max_age_seconds \in MaxAges, microsecond \in {0, 1} :
        IsSyncStale(max_age_seconds, microsecond)

SpecStale == InitStale /\ [][NextStale]_vars

\* load() with handlers and a GUI root, on the settings a previous run may
\* have left: nothing, a string that is no JSON, a blob
InitLoad ==
    /\ cargo = EmptyTally
    /\ last_sync = NoSync
    /\ call_sign = None
    /\ handlers = <<>>
    /\ gui_root = None
    /\ sink = <<>>
    /\ config \in {MissingBlob, GarbageBlob, PriorBlob}
    /\ now = 0
    /\ updates_lock = 0
    /\ workers = [w \in WorkerIds |-> IdleWorker]
    /\ session_ok = FALSE
    /\ main_alive = TRUE
    /\ last_known_cmdr = ""
    /\ delayed_update_data = <<>>
    /\ cmdr_state = FALSE
    /\ cmdr_config = MissingCmdrState
    /\ data_lock = 0
    /\ monitor_lock = 0
    /\ consumers = [c \in ConsumerIds |-> IdleConsumer]
    /\ last = [op |-> "init", ok |-> TRUE, tags |-> {}]

NextLoad ==
    \/ Load
    \/ \E callback \in NotifyCallbacks : Inventory(callback)
    \/ \E handler \in HandlerIds : AddOnCargoChangeHandler(handler)
    \/ \E root \in GuiRoots : SetGuiRootOnce(root)
    \/ GuiRun

SpecLoad == InitLoad /\ [][NextLoad]_vars

\* the ledger as load() leaves it on the blob of a previous run
InitBudget ==
    /\ cargo \in from_json_dict(PriorBlob.cargo)
    /\ last_sync = PriorBlob.lastSync
    /\ call_sign = PriorBlob.callSign
    /\ handlers = <<>>
    /\ gui_root = None
    /\ sink = <<>>
    /\ config = PriorBlob
    /\ now = 0
    /\ updates_lock = 0
    /\ workers = [w \in WorkerIds |-> IdleWorker]
    /\ session_ok = FALSE
    /\ main_alive = TRUE
    /\ last_known_cmdr = ""
    /\ delayed_update_data = <<>>
    /\ cmdr_state = FALSE
    /\ cmdr_config = MissingCmdrState
    /\ data_lock = 0
    /\ monitor_lock = 0
    /\ consumers = [c \in ConsumerIds |-> IdleConsumer]
    /\ last = [op |-> "init", ok |-> TRUE, tags |-> {}]

\* update_from_server against a server that never answers well, no other
\* caller of the ledger
NextBudget ==
    \/ UpdateFromServer
    \/ \E w \in WorkerIds :
        \/ UpdaterAcquire(w)
        \/ UpdaterExhausted(w)
        \/ UpdaterMainDead(w)
        \/ UpdaterNotReady(w)
        \/ UpdaterFetchFailed(w)
        \/ \E data \in FailingResponses : UpdaterFetch(w, data)
        \/ WorkerRelease(w)
    \/ SessionChange
    \/ MainThreadExit

SpecBudget == InitBudget /\ [][NextBudget]_vars

\* the clock at the start of the plugin: the blob of the previous run is
\* from time 0
StartupNows == {0, LoginMaxAge - 1, LoginMaxAge + 1}

\* callers that write a quantity and ask for the access time to be updated
StartupCallbacks ==
    {Callback(<<[op |-> "set", key |-> CargoKeyFromStr("gold"), n |-> n]>>,
              TRUE, FALSE) : n \in 1 .. MaxQty}
    \cup {ReadOnly}

\* plugin_app: load_or_update() at the start of the plugin, with other
\* threads using the ledger
InitStartup ==
    /\ cargo = EmptyTally
    /\ last_sync = NoSync
    /\ call_sign = None
    /\ handlers = <<>>
    /\ gui_root = None
    /\ sink = <<>>
    /\ config \in {MissingBlob, GarbageBlob, PriorBlob}
    /\ now \in StartupNows
    /\ updates_lock = 0
    /\ workers = [w \in WorkerIds |-> IdleWorker]
    /\ session_ok = FALSE
    /\ main_alive = TRUE
    /\ last_known_cmdr = ""
    /\ delayed_update_data = <<>>
    /\ cmdr_state = FALSE
    /\ cmdr_config = MissingCmdrState
    /\ data_lock = 0
    /\ monitor_lock = 0
    /\ consumers = [c \in ConsumerIds |-> IdleConsumer]
    /\ last = [op |-> "init", ok |-> TRUE, tags |-> {}]

NextStartup ==
    \/ LoadOrUpdate
    \/ \E w \in WorkerIds :
        \/ LoadOrUpdateCheck(w)
        \/ UpdaterAcquire(w)
        \/ UpdaterMainDead(w)
        \/ WorkerRelease(w)
    \/ \E callback \in StartupCallbacks : Inventory(callback)
    \/ MainThreadExit

SpecStartup == InitStartup /\ [][NextStartup]_vars

\* the snapshot the host hands to sync_to_capi in the specification below
DrainResponses ==
    {Response("ABC", <<Line("gold", 1, "false", "false", "null")>>)}

DrainEvents == {DockedOwn, MarketSell}

\* the journal delta engine next to the refresh workers; the session is
\* not ready, an update_from_server worker holds the token until the host
\* shuts down
NextDrain ==
    \/ \E ctx \in DrainEvents : ProcessJournalEntry("cmdr1", ctx)
    \/ \E c \in ConsumerIds :
        \/ ConsumerAcquire(c)
        \/ ConsumerDefer(c)
        \/ ConsumerBegin(c)
        \/ ConsumerApply(c)
        \/ ConsumerExit(c)
    \/ SyncToCapi
    \/ UpdateFromServer
    \/ \E w \in WorkerIds :
        \/ SyncAcquire(w)
        \/ \E data \in DrainResponses : SyncLoad(w, data)
        \/ UpdaterAcquire(w)
        \/ UpdaterMainDead(w)
        \/ WorkerSignal(w)
        \/ WorkerRelease(w)
    \/ MainThreadExit

SpecDrain == InitMonitor /\ [][NextDrain]_vars

\* the consumer on a journal in which some entry makes its handler fail
BatchEvents == {DockedOwn, MarketSell, BrokenSell}

NextBatch ==
    \/ \E ctx \in BatchEvents : ProcessJournalEntry("cmdr1", ctx)
    \/ \E c \in ConsumerIds :
        \/ ConsumerAcquire(c)
        \/ ConsumerBegin(c)
        \/ ConsumerApply(c)
        \/ ConsumerExit(c)
    \/ MainThreadExit

SpecBatch == InitMonitor /\ [][NextBatch]_vars

\* the consumer while refreshes keep being triggered; every thread that
\* can take a step takes one
ConsumerNext(c) ==
    \/ ConsumerAcquire(c)
    \/ ConsumerDefer(c)
    \/ ConsumerBegin(c)
    \/ ConsumerApply(c)
    \/ ConsumerExit(c)

SyncNext(w) ==
    \/ SyncAcquire(w)
    \/ \E data \in DrainResponses : SyncLoad(w, data)
    \/ WorkerSignal(w)
    \/ WorkerRelease(w)

NextDefer ==
    \/ ProcessJournalEntry("cmdr1", MarketSell)
    \/ \E c \in ConsumerIds : ConsumerNext(c)
    \/ SyncToCapi
    \/ \E w \in WorkerIds : SyncNext(w)
    \/ MainThreadExit

SpecDefer ==
    InitMonitor /\ [][NextDefer]_vars
    /\ \A c \in ConsumerIds : WF_vars(ConsumerNext(c))
    /\ \A w \in WorkerIds : WF_vars(SyncNext(w))

\* the dock state under Docked and Undocked entries of one commander
DockEvents == {DockedOwn, DockedOther, DockedStation, Undocked}

NextDock ==
    \/ \E ctx \in DockEvents : ProcessJournalEntry("cmdr1", ctx)
    \/ \E c \in ConsumerIds :
        \/ ConsumerAcquire(c)
        \/ ConsumerBegin(c)
        \/ ConsumerApply(c)
        \/ ConsumerExit(c)
    \/ MainThreadExit

SpecDock == InitMonitor /\ [][NextDock]_vars

\* the identity handling of process_journal_entry: two commanders, a
\* stored ledger that is fresh, idle for more than two hours or older than
\* twelve hours (or none), a stored DockState or none
IdentityNows ==
    {0, 2 * 3600 + 1, 12 * 3600 + 1}

IdentityEvents == {DockedOwn, Unrecognized}

InitIdentity ==
    /\ cargo = EmptyTally
    /\ last_sync = NoSync
    /\ call_sign = None
    /\ handlers = <<>>
    /\ gui_root = None
    /\ sink = <<>>
    /\ config \in {MissingBlob, PriorBlob}
    /\ now \in IdentityNows
    /\ updates_lock = 0
    /\ workers = [w \in WorkerIds |-> IdleWorker]
    /\ session_ok = FALSE
    /\ main_alive = TRUE
    /\ last_known_cmdr = ""
    /\ delayed_update_data = <<>>
    /\ cmdr_state = FALSE
    /\ cmdr_config \in {MissingCmdrState, SavedCmdrState(TRUE)}
    /\ data_lock = 0
    /\ monitor_lock = 0
    /\ consumers = [c \in ConsumerIds |-> IdleConsumer]
    /\ last = [op |-> "init", ok |-> TRUE, tags |-> {}]

NextIdentity ==
    \/ \E cmdr \in {"cmdr1", "cmdr2"}, ctx \in IdentityEvents :
            ProcessJournalEntry(cmdr, ctx)
    \/ \E c \in ConsumerIds :
        \/ ConsumerAcquire(c)
        \/ ConsumerDefer(c)
        \/ ConsumerBegin(c)
        \/ ConsumerApply(c)
        \/ ConsumerExit(c)
    \/ \E w \in WorkerIds :
        \/ UpdaterAcquire(w)
        \/ UpdaterMainDead(w)
        \/ WorkerRelease(w)
    \/ MainThreadExit

SpecIdentity == InitIdentity /\ [][NextIdentity]_vars

(***************************************************************************)
(* The locks.  In the specifications above a critical section is one step; *)
(* here every function is the sequence of its lock operations and workers  *)
(* holds, for each thread, the function it runs and its position in it.    *)
(***************************************************************************)
MaxCallers == 1

Acquire(l) == [op |-> "acquire", lock |-> l]
TryAcquireOp(l) == [op |-> "try", lock |-> l]
Release(l) == [op |-> "release", lock |-> l]

\* inventory: with _cargo_lock (219), _signal_cargo_was_changed inside it
\* (245 -> 197)
InventoryLocksReversed ==
    <<Acquire("signals"), Acquire("cargo"), Release("cargo"),
      Release("signals")>>

InventoryLocks ==
    <<Acquire("cargo"), Acquire("signals"), Release("signals"),
      Release("cargo")>>

\* load: with _cargo_lock (262), _signal_cargo_was_changed inside it (268)
LoadLocks ==
    <<Acquire("cargo"), Acquire("signals"), Release("signals"),
      Release("cargo")>>

\* save (277) and is_sync_stale (159)
CargoOnlyLocks == <<Acquire("cargo"), Release("cargo")>>

\* add_on_cargo_change_handler (177) and set_gui_root_once (186)
SignalsOnlyLocks == <<Acquire("signals"), Release("signals")>>

\* _load_from_capi: with _cargo_lock (330), _signal_cargo_was_changed after
\* it (345)
LoadFromCapiLocks ==
    <<Acquire("cargo"), Release("cargo"), Acquire("signals"),
      Release("signals")>>

\* update_from_server.updater: acquire(blocking=False) (379), finally (419)
UpdaterLocks ==
    <<TryAcquireOp("updates")>> \o LoadFromCapiLocks \o <<Release("updates")>>

\* sync_to_capi.updater: with _updates_lock (364)
SyncLocks ==
    <<Acquire("updates")>> \o LoadFromCapiLocks \o <<Release("updates")>>

\* process_journal_entry on the first event: with _data_lock (166),
\* _cmdrLoggedIn calls load() (152) and is_sync_stale (153)
JournalLocks ==
    <<Acquire("data")>> \o LoadLocks \o CargoOnlyLocks \o <<Release("data")>>

\* _delayed_update.updater: acquire(blocking=False) (125), one cycle of
\* _apply_all_delayed_updates with _data_lock (96) and a handler that calls
\* inventory, finally (136)
ConsumerLocks ==
    <<TryAcquireOp("monitor_updates"), Acquire("data")>> \o InventoryLocks
    \o <<Release("data"), Release("monitor_updates")>>

CallerKinds == {"inventory", "load", "save", "add_handler"}

LockProgram(kind) ==
    CASE kind = "inventory" -> InventoryLocks
      [] kind = "load" -> LoadLocks
      [] kind = "save" -> CargoOnlyLocks
      [] kind = "add_handler" -> SignalsOnlyLocks
      [] kind = "update" -> UpdaterLocks
      [] kind = "sync" -> SyncLocks
      [] kind = "journal" -> JournalLocks
      [] kind = "consumer" -> ConsumerLocks

\* the threads: callers of the ledger, then the producer, the consumer, an
\* update_from_server worker and a sync_to_capi worker
LockThreads == 1 .. MaxCallers + 4

ThreadKinds(t) ==
    IF t <= MaxCallers THEN CallerKinds
    ELSE IF t = MaxCallers + 1 THEN {"journal"}
    ELSE IF t = MaxCallers + 2 THEN {"consumer"}
    ELSE IF t = MaxCallers + 3 THEN {"update"}
    ELSE {"sync"}

NoThread == [kind |-> "none", pc |-> 0]

\* the locks a thread holds before the operation at position pc
RECURSIVE HeldBefore(_, _)
HeldBefore(program, pc) ==
    IF pc <= 1 THEN {}
    ELSE LET before == HeldBefore(program, pc - 1)
             o == program[pc - 1]
         IN  IF o.op = "release" THEN before \ {o.lock}
             ELSE before \cup {o.lock}

Held(ws, t) ==
    IF ws[t].kind = "none" THEN {}
    ELSE HeldBefore(LockProgram(ws[t].kind), ws[t].pc)

\* the operation a thread is about to make
NextOp(t) == LockProgram(workers[t].kind)[workers[t].pc]

\* threading.Thread(...).start(), or a call by a thread of the host
StartThread(t, kind) ==
    /\ workers[t].kind = "none"
    /\ workers' = [workers EXCEPT ![t] = [kind |-> kind, pc |-> 1]]
    /\ last' = [op |-> "start", ok |-> TRUE, tags |-> {}]
    /\ UNCHANGED <<cargo, last_sync, call_sign, handlers, gui_root, sink,
                   config, now, updates_lock, session_ok, main_alive,
                   monitor_vars>>

IsFree(l) == \A t \in LockThreads : l \notin Held(workers, t)

\* the holder of lock l after thread t made the operation o on it
HolderAfter(holder, l, t, o) ==
    IF o.lock # l THEN holder
    ELSE IF o.op = "release" THEN 0
    ELSE IF holder = 0 THEN t
    ELSE holder

\* one lock operation of thread t: a blocking acquire waits for the lock, a
\* failed non-blocking acquire ends the thread
LockStep(t) ==
    /\ workers[t].kind # "none"
    /\ NextOp(t).op = "acquire" => IsFree(NextOp(t).lock)
    /\ workers' =
            IF \/ NextOp(t).op = "try" /\ ~IsFree(NextOp(t).lock)
               \/ workers[t].pc = Len(LockProgram(workers[t].kind))
            THEN [workers EXCEPT ![t] = NoThread]
            ELSE [workers EXCEPT ![t].pc = @ + 1]
    /\ updates_lock' = HolderAfter(updates_lock, "updates", t, NextOp(t))
    /\ data_lock' = HolderAfter(data_lock, "data", t, NextOp(t))
    /\ monitor_lock' =
            HolderAfter(monitor_lock, "monitor_updates", t, NextOp(t))
    /\ last' = [op |-> "lock_step", ok |-> TRUE, tags |-> {}]
    /\ UNCHANGED <<cargo, last_sync, call_sign, handlers, gui_root, sink,
                   config, now, session_ok, main_alive, last_known_cmdr,
                   delayed_update_data, cmdr_state, cmdr_config, consumers>>

InitLocks ==
    /\ cargo = EmptyTally
    /\ last_sync = NoSync
    /\ call_sign = None
    /\ handlers = <<>>
    /\ gui_root = None
    /\ sink = <<>>
    /\ config = MissingBlob
    /\ now = 0
    /\ updates_lock = 0
    /\ workers = [t \in LockThreads |-> NoThread]
    /\ session_ok = FALSE
    /\ main_alive = TRUE
    /\ last_known_cmdr = ""
    /\ delayed_update_data = <<>>
    /\ cmdr_state = FALSE
    /\ cmdr_config = MissingCmdrState
    /\ data_lock = 0
    /\ monitor_lock = 0
    /\ consumers = [c \in ConsumerIds |-> IdleConsumer]
    /\ last = [op |-> "init", ok |-> TRUE, tags |-> {}]

NextLocks ==
    \E t \in LockThreads :
        \/ \E kind \in ThreadKinds(t) : StartThread(t, kind)
        \/ LockStep(t)

\* a thread that is running takes its next step, and a thread waiting for a
\* lock that becomes free again and again gets it
SpecLocks ==
    InitLocks /\ [][NextLocks]_vars
    /\ \A t \in LockThreads : SF_vars(LockStep(t))

(***************************************************************************)
(* The ledger under _cargo_lock, statement by statement: two threads call  *)
(* inventory() while a third replaces the ledger, by load() or by          *)
(* _load_from_capi.  workers holds, for each thread, its call and the      *)
(* statement it is at.                                                     *)
(***************************************************************************)
LedgerThreads == 1 .. 3

LedgerCallbacks ==
    {Callback(<<[op |-> "add", key |-> CargoKeyFromStr("gold"), n |-> 1]>>,
              TRUE, FALSE),
     Callback(<<[op |-> "set", key |-> CargoKeyFromStr("gold"), n |-> MaxQty]>>,
              FALSE, FALSE),
     Callback(<<[op |-> "del", key |-> CargoKeyFromStr("gold"), n |-> 0]>>,
              TRUE, FALSE)}

LedgerResponses ==
    FailingResponses
    \cup {Response("ABC", <<Line("gold", 1, "false", "false", "null")>>),
          Response("", <<Line("gold", 1, "false", "false", "null")>>)}

\* the calls thread t may make
LedgerCalls(t) ==
    IF t < 3
    THEN {[kind |-> "inventory", pc |-> "lock", callback |-> cb] :
            cb \in LedgerCallbacks}
    ELSE {[kind |-> "load", pc |-> "get_str", data |-> MissingBlob]}
         \cup {[kind |-> "load_from_capi", pc |-> "lock", data |-> d, idx |-> 1] :
                 d \in LedgerResponses}

\* with _cargo_lock: no other thread is between its acquire and its release
CargoLockFree(t) ==
    \A u \in LedgerThreads \ {t} :
        workers[u].pc \in {"none", "get_str", "lock", "done"}

LedgerUnchanged ==
    UNCHANGED <<handlers, gui_root, sink, now, updates_lock, session_ok,
                main_alive, monitor_vars>>

LedgerStep(t, op) ==
    last' = [op |-> op, ok |-> TRUE, tags |-> {ToString(t)}]

\* a thread calls inventory(), load() or _load_from_capi
LedgerCall(t, call) ==
    /\ workers[t].kind = "none"
    /\ workers' = [workers EXCEPT ![t] = call]
    /\ LedgerStep(t, "call")
    /\ UNCHANGED <<cargo, last_sync, call_sign, config>>
    /\ LedgerUnchanged

\* load, lines 253-261: the stored blob is read before the lock is taken
LoadGetStr(t) ==
    /\ workers[t].pc = "get_str"
    /\ workers' = [workers EXCEPT
            ![t].pc = IF config.state = "json" THEN "lock" ELSE "done",
            ![t].data = config]
    /\ LedgerStep(t, "get_str")
    /\ UNCHANGED <<cargo, last_sync, call_sign, config>>
    /\ LedgerUnchanged

\* with FleetCarrierCargo._cargo_lock (219, 262, 330)
LedgerAcquire(t) ==
    /\ workers[t].pc = "lock"
    /\ CargoLockFree(t)
    /\ workers' = [workers EXCEPT ![t].pc =
            CASE workers[t].kind = "inventory" -> "callback"
              [] workers[t].kind = "load" -> "cargo"
              [] workers[t].kind = "load_from_capi" -> "call_sign"]
    /\ LedgerStep(t, "acquire")
    /\ UNCHANGED <<cargo, last_sync, call_sign, config>>
    /\ LedgerUnchanged

\* inventory, line 222: the closure runs on the mapping
InventoryCallback(t) ==
    /\ workers[t].pc = "callback"
    /\ cargo' = RunSteps(workers[t].callback.steps, cargo)
    /\ workers' = [workers EXCEPT ![t].pc =
            IF workers[t].callback.raises THEN "done" ELSE "filter"]
    /\ LedgerStep(t, "callback")
    /\ UNCHANGED <<last_sync, call_sign, config>>
    /\ LedgerUnchanged

\* inventory, lines 223-245 (no GUI root is bound: nothing is scheduled)
InventoryFilter(t) ==
    /\ workers[t].pc = "filter"
    /\ cargo' = FilterValid(cargo)
    /\ IF workers[t].callback.res
       THEN /\ last_sync' = IsoNow
            /\ config' = Blob(FilterValid(cargo), IsoNow, call_sign)
       ELSE UNCHANGED <<last_sync, config>>
    /\ workers' = [workers EXCEPT ![t].pc = "done"]
    /\ LedgerStep(t, "filter")
    /\ UNCHANGED call_sign
    /\ LedgerUnchanged

\* load, line 264
LoadCargo(t) ==
    /\ workers[t].pc = "cargo"
    /\ cargo' \in from_json_dict(workers[t].data.cargo)
    /\ workers' = [workers EXCEPT ![t].pc = "last_sync"]
    /\ LedgerStep(t, "cargo")
    /\ UNCHANGED <<last_sync, call_sign, config>>
    /\ LedgerUnchanged

\* load, lines 265-269
LoadRest(t) ==
    /\ workers[t].pc = "last_sync"
    /\ last_sync' = workers[t].data.lastSync
    /\ call_sign' = workers[t].data.callSign
    /\ workers' = [workers EXCEPT ![t].pc = "done"]
    /\ LedgerStep(t, "last_sync")
    /\ UNCHANGED <<cargo, config>>
    /\ LedgerUnchanged

\* _load_from_capi, lines 331-334
CapiCallSign(t) ==
    /\ workers[t].pc = "call_sign"
    /\ LET data == workers[t].data
       IN  /\ call_sign' = IF data.callsign = Absent THEN call_sign
                           ELSE data.callsign
           /\ workers' = [workers EXCEPT ![t].pc =
                    IF CapiOutcome(data) \in {"raised", "aborted"}
                    THEN "done" ELSE "clear"]
    /\ LedgerStep(t, "call_sign")
    /\ UNCHANGED <<cargo, last_sync, config>>
    /\ LedgerUnchanged

\* _load_from_capi, line 336
CapiClear(t) ==
    /\ workers[t].pc = "clear"
    /\ cargo' = EmptyTally
    /\ workers' = [workers EXCEPT ![t].pc = "line"]
    /\ LedgerStep(t, "clear")
    /\ UNCHANGED <<last_sync, call_sign, config>>
    /\ LedgerUnchanged

\* _load_from_capi, lines 337-344: one pass of the loop, the KeyError on the
\* item without "qty", or the save after the last item
CapiLine(t) ==
    /\ workers[t].pc = "line"
    /\ LET data == workers[t].data
           idx == workers[t].idx
       IN  IF idx <= Len(data.cargo)
           THEN /\ cargo' = AddLine(cargo, data.cargo[idx])
                /\ workers' = [workers EXCEPT ![t].idx = idx + 1]
                /\ UNCHANGED <<last_sync, config>>
           ELSE /\ workers' = [workers EXCEPT ![t].pc = "done"]
                /\ IF data.rest = "no qty"
                   THEN UNCHANGED <<cargo, last_sync, config>>
                   ELSE /\ last_sync' = IsoNow
                        /\ config' = Blob(cargo, IsoNow, call_sign)
                        /\ UNCHANGED cargo
    /\ LedgerStep(t, "line")
    /\ UNCHANGED call_sign
    /\ LedgerUnchanged

\* the ledger was changed since the settings were stored
InitLedger ==
    /\ cargo = Put(EmptyTally, CargoKeyFromStr("gold"), 1)
    /\ last_sync = PriorBlob.lastSync
    /\ call_sign = PriorBlob.callSign
    /\ handlers = <<>>
    /\ gui_root = None
    /\ sink = <<>>
    /\ config = PriorBlob
    /\ now = MaxNow
    /\ updates_lock = 0
    /\ workers = [t \in LedgerThreads |-> IdleWorker]
    /\ session_ok = FALSE
    /\ main_alive = TRUE
    /\ last_known_cmdr = ""
    /\ delayed_update_data = <<>>
    /\ cmdr_state = FALSE
    /\ cmdr_config = MissingCmdrState
    /\ data_lock = 0
    /\ monitor_lock = 0
    /\ consumers = [c \in ConsumerIds |-> IdleConsumer]
    /\ last = [op |-> "init", ok |-> TRUE, tags |-> {}]

NextLedger ==
    \E t \in LedgerThreads :
        \/ \E call \in LedgerCalls(t) : LedgerCall(t, call)
        \/ LoadGetStr(t)
        \/ LedgerAcquire(t)
        \/ InventoryCallback(t)
        \/ InventoryFilter(t)
        \/ LoadCargo(t)
        \/ LoadRest(t)
        \/ CapiCallSign(t)
        \/ CapiClear(t)
        \/ CapiLine(t)

SpecLedger == InitLedger /\ [][NextLedger]_vars

\* one refresh cycle after the other, every exit of the updater reachable;
\* a thread that can take a step takes one
CycleStep(w) ==
    \/ UpdaterAcquire(w)
    \/ UpdaterExhausted(w)
    \/ UpdaterMainDead(w)
    \/ UpdaterNotReady(w)
    \/ UpdaterFetchFailed(w)
    \/ UpdaterUnexpected(w)
    \/ \E data \in LedgerResponses : UpdaterFetch(w, data)
    \/ WorkerSignal(w)
    \/ WorkerRelease(w)

NextCycle ==
    \/ UpdateFromServer
    \/ \E w \in WorkerIds : CycleStep(w)
    \/ SessionChange
    \/ MainThreadExit

SpecCycle ==
    InitBudget /\ [][NextCycle]_vars
    /\ \A w \in WorkerIds : WF_vars(CycleStep(w))

(***************************************************************************)
(* Properties                                                              *)
(***************************************************************************)
\* every entry has a CargoKey for key and a quantity above zero
WellFormed(d) == \A k \in DOMAIN d : IsCargoKey(k) /\ d[k] > 0

\* C1: after every inventory(mutator) call that returns, whatever the mutator
\* wrote (keys that are no CargoKey, quantities of zero or below), every
\* entry left in the ledger has a CargoKey and a quantity > 0.
C1_InventoryLeavesWellFormed ==
    (last.op = "inventory" /\ last.ok) => WellFormed(cargo)

\* an inventory call returned after its mutator wrote an entry that the
\* enforcement dropped, and entries remain
C1_Witness ==
    /\ last.op = "inventory" /\ last.ok
    /\ {"wrote", "dropped"} \subseteq last.tags
    /\ cargo # EmptyTally

\* C2: whatever the sequence of inventory calls, loads and wholesale
\* replaces, no ledger entry seen outside the ledger lock and no entry of the
\* persisted blob has a quantity < 0, and no entry of quantity 0 lingers.
C2_NoQuantityBelowOne ==
    /\ \A k \in DOMAIN cargo : cargo[k] > 0
    /\ \A s \in DOMAIN config.cargo : config.cargo[s] > 0

\* C3: with a GUI root bound, an inventory call that leaves the set of
\* (key, quantity) pairs as it was schedules no notification, and one that
\* changes a pair hands every registered handler to the GUI queue once.
C3_NotificationExactness ==
    [][(last'.op = "inventory" /\ last'.ok /\ gui_root # None) =>
          IF Items(cargo') = Items(cargo)
          THEN sink' = sink
          ELSE sink' = sink \o handlers]_vars

\* an inventory call changed the ledger with a root bound and a handler
\* registered, and the handler is in the GUI queue
C3_Witness ==
    /\ last.op = "inventory" /\ last.ok /\ "changed" \in last.tags
    /\ gui_root # None
    /\ handlers # <<>>
    /\ sink # <<>>

\* C4: an update_from_server worker that finds the refresh token taken ends
\* at once, without a session check, a request, a sleep or a change of state;
\* at most one retry loop is running.
C4_RefreshExclusivity ==
    /\ [](Cardinality({w \in WorkerIds : InRetryLoop(w)}) <= 1)
    /\ [][\A w \in WorkerIds :
            (/\ workers[w].kind = "update" /\ workers[w].pc = "acquire"
             /\ updates_lock # 0
             /\ workers'[w] # workers[w]) =>
                /\ workers'[w] = IdleWorker
                /\ UNCHANGED <<cargo, last_sync, call_sign, sink, config,
                               updates_lock>>]_vars

\* a second update_from_server worker has just returned while the first is
\* in its retry loop
C4_Witness ==
    /\ last.op = "updater_returned"
    /\ \E w \in WorkerIds : InRetryLoop(w) /\ updates_lock = w

\* C5: when the mutator raises after writing, the enforcement pass still
\* runs before the ledger lock is released: no other thread sees entries
\* the mutator left in violation of the invariant.
C5_FailedMutatorLeavesWellFormed ==
    (last.op = "inventory" /\ ~last.ok) => WellFormed(cargo)

\* the consumer c applies the queued event Applied(c) in this step
ApplyStep(c) == consumers[c].pc = "apply" /\ consumers'[c] # consumers[c]

Applied(c) == delayed_update_data[consumers[c].idx]

\* the ledger holds quantity n for key k, no entry when n <= 0
HoldsQuantity(d, k, n) ==
    IF n <= 0 THEN k \notin DOMAIN d ELSE k \in DOMAIN d /\ d[k] = n

\* C6: a MarketBuy of C, Count Q, applied while docked on the own carrier
\* lowers the ledger quantity of C by Q (no entry at <= 0), a MarketSell
\* raises it by Q; applied while undocked they leave the ledger, last_sync
\* and the blob as they were.
C6_BuySellApplied ==
    [][\A c \in ConsumerIds :
        (ApplyStep(c) /\ Applied(c).entry.event \in {"MarketBuy", "MarketSell"}) =>
            LET entry == Applied(c).entry
                key == CargoKeyFromStr(entry.Type)
                old == Get(cargo, key, 0)
            IN  IF cmdr_state
                THEN HoldsQuantity(cargo', key,
                                   IF entry.event = "MarketBuy"
                                   THEN old - entry.Count
                                   ELSE old + entry.Count)
                ELSE UNCHANGED <<cargo, last_sync, config>>]_vars

\* the sum of the signed counts of the transfer lines of commodity key k
RECURSIVE NetTransfer(_, _)
NetTransfer(transfers, k) ==
    IF transfers = <<>> THEN 0
    ELSE LET t == Head(transfers)
         IN  (IF CargoKeyFromStr(t.Type) # k THEN 0
              ELSE IF t.Direction = "toship" THEN 0 - t.Count
              ELSE IF t.Direction = "tocarrier" THEN t.Count
              ELSE 0) + NetTransfer(Tail(transfers), k)

\* C7: a CargoTransfer applied while undocked sets DockState to docked and
\* persists it, and every line is applied: "toship" lowers the quantity of
\* its commodity by Count (no entry at <= 0), "tocarrier" raises it.
C7_TransferApplied ==
    [][\A c \in ConsumerIds :
        (ApplyStep(c) /\ Applied(c).entry.event = "CargoTransfer"
         /\ ~cmdr_state) =>
            LET transfers == Applied(c).entry.Transfers
            IN  /\ cmdr_state'
                /\ cmdr_config' = SavedCmdrState(TRUE)
                /\ \A i \in 1 .. Len(transfers) :
                     LET k == CargoKeyFromStr(transfers[i].Type)
                     IN  HoldsQuantity(cargo', k,
                                       Get(cargo, k, 0)
                                       + NetTransfer(transfers, k))]_vars

\* C8: a response with no call sign, or an empty one, leaves the ledger,
\* call_sign, last_sync and the blob as they were and schedules no
\* notification.
C8_NoCallSignNoChange ==
    [][(/\ last'.op = "load_from_capi"
        /\ last'.tags \cap {"raised", "aborted"} # {}) =>
          UNCHANGED <<cargo, call_sign, last_sync, config, sink>>]_vars

\* the quantity of key k summed over the lines of a response
RECURSIVE SumQty(_, _)
SumQty(lines, k) ==
    IF lines = <<>> THEN 0
    ELSE (IF CargoKeyFromDict(Head(lines)) = k THEN Head(lines).qty ELSE 0)
         + SumQty(Tail(lines), k)

\* the ledger a response stands for
Snapshot(data) ==
    [k \in {CargoKeyFromDict(data.cargo[i]) : i \in 1 .. Len(data.cargo)} |->
        SumQty(data.cargo, k)]

\* C9: after a successful refresh the ledger holds the commodities of the
\* response and no other, each with the sum of qty over the lines of its
\* key; nothing of the previous ledger survives.
C9_WholesaleReplace ==
    [][(last'.op = "load_from_capi" /\ last'.ok) =>
          \A w \in WorkerIds : \A data \in Responses :
              (UpdaterFetch(w, data) \/ SyncLoad(w, data)) =>
                  cargo' = Snapshot(data)]_vars

\* a response with two lines of one key was parsed: the ledger holds gold
\* alone, with the sum 1 + 1
C9_Witness ==
    /\ last.op = "load_from_capi" /\ last.ok /\ "duplicate" \in last.tags
    /\ DOMAIN cargo = {CargoKeyFromStr("gold")}
    /\ cargo[CargoKeyFromStr("gold")] = 2

\* C10: two lines with one commodity symbol and different provenance give
\* distinct CargoKeys, which the remote replace keeps as separate entries.
C10_ProvenanceKeepsEntriesApart ==
    [][(last'.op = "load_from_capi" /\ last'.ok) =>
          \A w \in WorkerIds : \A data \in Responses :
              (UpdaterFetch(w, data) \/ SyncLoad(w, data)) =>
                  \A i, j \in 1 .. Len(data.cargo) :
                      (/\ data.cargo[i].commodity = data.cargo[j].commodity
                       /\ Provenance(data.cargo[i]) # Provenance(data.cargo[j]))
                      => /\ CargoKeyFromDict(data.cargo[i])
                              # CargoKeyFromDict(data.cargo[j])
                         /\ cargo'[CargoKeyFromDict(data.cargo[i])]
                              = data.cargo[i].qty]_vars

ElapsedAbove(m) ==
    2 * (now - last_sync.t)
        + (IF "microsecond" \in last.tags THEN 1 ELSE 0) > 2 * m

BlobMatches(blob, d, ls, cs) ==
    /\ blob.state = "json"
    /\ from_json_dict(blob.cargo) = {d}
    /\ blob.lastSync = ls
    /\ blob.callSign = cs

\* C13: when the callback of inventory() returns true, last_sync becomes the
\* current time and the blob is rewritten to the ledger after enforcement,
\* call_sign and last_sync, in the same step as the mutation; when it
\* returns false, last_sync and the blob stay as they were.
C13_SaveWithMutation ==
    [][(last'.op = "inventory" /\ last'.ok) =>
          IF "res" \in last'.tags
          THEN /\ last_sync' = [kind |-> "iso", t |-> now]
               /\ BlobMatches(config', cargo', last_sync', call_sign')
          ELSE UNCHANGED <<last_sync, config>>]_vars

\* a callback changed the ledger and returned true: the blob holds the new
\* ledger and the new last_sync
C13_Witness ==
    /\ last.op = "inventory" /\ last.ok
    /\ {"res", "changed"} \subseteq last.tags
    /\ cargo # EmptyTally
    /\ BlobMatches(config, cargo, last_sync, call_sign)

C15_ExhaustedBudgetNoChange ==
    /\ \A w \in WorkerIds : workers[w].attempt <= attempts_count
    /\ last.op = "attempts_exhausted" =>
          /\ cargo \in from_json_dict(PriorBlob.cargo)
          /\ call_sign = PriorBlob.callSign
          /\ last_sync = PriorBlob.lastSync
          /\ config = PriorBlob
          /\ sink = <<>>

\* the update_from_server threads not yet finished
Updaters(ws) == {w \in WorkerIds : ws[w].kind = "update"}

\* C16: load_or_update() calls update_from_server exactly once when load()
\* fails or the loaded last_sync is older than 43200 seconds, and does not
\* call it when load() succeeds with a last_sync no older than that.
C16_LoadOrUpdate ==
    [][/\ (last'.op = "load_or_update" /\ ~last'.ok) =>
            Cardinality(Updaters(workers')) = Cardinality(Updaters(workers)) + 1
       /\ \A w \in WorkerIds :
            (workers[w].kind = "load_or_update" /\ workers'[w] # workers[w]) =>
                LET loaded == workers[w].loaded
                IN  /\ (loaded.kind = "iso" /\ now - loaded.t > 43200) =>
                        Updaters(workers') = Updaters(workers) \cup {w}
                    /\ (loaded.kind = "iso" /\ now - loaded.t <= 43200) =>
                        Updaters(workers') = Updaters(workers)]_vars

\* C17: the delta consumer never applies a queued event while a refresh
\* holds the refresh token: in no reachable state is a consumer inside its
\* drain-and-apply step while an update_from_server or sync_to_capi worker
\* holds _updates_lock.
C17_NoApplyDuringRefresh ==
    \A c \in ConsumerIds :
        consumers[c].pc = "apply" => ~is_updating_from_server

\* the order of the locks: a thread takes a lock only while it holds locks
\* that come before it
LockRank(l) ==
    CASE l = "monitor_updates" -> 1
      [] l = "data" -> 2
      [] l = "updates" -> 3
      [] l = "cargo" -> 4
      [] l = "signals" -> 5

\* C18: the system never deadlocks: with the producer, the consumer, a
\* refresh worker, a sync_to_capi worker and caller threads, every thread that
\* waits for a lock gets it (every thread started comes to its end), and
\* the order in which the locks are nested is acyclic.
C18_NoDeadlock ==
    /\ [](\A t \in LockThreads :
            (workers[t].kind # "none" /\ NextOp(t).op # "release") =>
                \A l \in Held(workers, t) : LockRank(l) < LockRank(NextOp(t).lock))
    /\ \A t \in LockThreads :
            (workers[t].kind # "none") ~> (workers[t].kind = "none")

\* the sync_to_capi worker waits for the refresh token, held by the
\* update_from_server worker inside _cargo_lock, while the producer waits for
\* the pending-queue lock held by the consumer
C18_Witness ==
    /\ workers[MaxCallers + 4].kind = "sync" /\ workers[MaxCallers + 4].pc = 1
    /\ Held(workers, MaxCallers + 3) = {"updates", "cargo"}
    /\ workers[MaxCallers + 1].kind = "journal" /\ workers[MaxCallers + 1].pc = 1
    /\ "data" \in Held(workers, MaxCallers + 2)

\* the ledger, time stamp, call sign and stored blob a call leaves when it
\* runs alone, from beginning to end
LedgerState(d, ls, cs, blob) ==
    [cargo |-> d, last_sync |-> ls, call_sign |-> cs, config |-> blob]

Alone(call, s) ==
    CASE call.kind = "inventory" ->
            LET mutated == RunSteps(call.callback.steps, s.cargo)
                kept == FilterValid(mutated)
            IN  IF call.callback.raises
                THEN {[s EXCEPT !.cargo = mutated]}
                ELSE IF call.callback.res
                THEN {LedgerState(kept, IsoNow, s.call_sign,
                                  Blob(kept, IsoNow, s.call_sign))}
                ELSE {[s EXCEPT !.cargo = kept]}
      [] call.kind = "load" ->
            IF s.config.state # "json" THEN {s}
            ELSE {LedgerState(d, s.config.lastSync, s.config.callSign,
                              s.config) : d \in from_json_dict(s.config.cargo)}
      [] call.kind = "load_from_capi" ->
            LET parsed == ParseLines(call.data.cargo, EmptyTally)
            IN  CASE CapiOutcome(call.data) = "parsed" ->
                        {LedgerState(parsed, IsoNow, call.data.callsign,
                                     Blob(parsed, IsoNow, call.data.callsign))}
                  [] CapiOutcome(call.data) = "aborted" ->
                        {[s EXCEPT !.call_sign = call.data.callsign]}
                  [] OTHER -> {s}

\* the states the calls of the threads in T leave when they run one after
\* the other, in any order
RECURSIVE OneAfterTheOther(_, _)
OneAfterTheOther(T, s) ==
    IF T = {} THEN {s}
    ELSE UNION {UNION {OneAfterTheOther(T \ {t}, s2) : s2 \in Alone(workers[t], s)} :
                    t \in T}

LedgerAtStart ==
    LedgerState(Put(EmptyTally, CargoKeyFromStr("gold"), 1),
                PriorBlob.lastSync, PriorBlob.callSign, PriorBlob)

\* C19: access to the ledger is mutually exclusive and no mutation is lost:
\* at most one thread is inside _cargo_lock, and whenever the lock is free
\* (the ledger any thread entering inventory() observes) the ledger is the
\* one the finished calls leave when run one after the other in some order,
\* each from beginning to end: two inventory() calls serialise, and a
\* replace by load() or by the remote refresh shows no half-built ledger.
C19_LedgerSerialised ==
    /\ \A t \in LedgerThreads :
            workers[t].pc \in {"none", "get_str", "lock", "done"}
            \/ CargoLockFree(t)
    /\ (\A t \in LedgerThreads :
            workers[t].pc \in {"none", "get_str", "lock", "done"}) =>
        \E s \in OneAfterTheOther({t \in LedgerThreads : workers[t].pc = "done"},
                                  LedgerAtStart) :
            s.cargo = cargo

\* C20: every refresh cycle terminates and releases the refresh token on
\* each of its exits: every updater thread started comes to its end, the
\* token is held by a running updater only, so is_updating_from_server()
\* is false again after any refresh; and an attempt that finds the main
\* thread dead leaves the loop for the release, with no fetch and with the
\* ledger, time stamp, call sign, blob and notifications untouched.
C20_CycleTerminates ==
    /\ \A w \in WorkerIds :
            (workers[w].kind = "update") ~> (workers[w].kind = "none")
    /\ is_updating_from_server ~> ~is_updating_from_server
    /\ [](\A w \in WorkerIds :
            updates_lock = w => workers[w].pc \in {"loop", "signal", "release"})
    /\ [][\A w \in WorkerIds :
            (/\ workers[w].kind = "update" /\ workers[w].pc = "loop"
             /\ workers[w].attempt < attempts_count
             /\ ~main_alive
             /\ workers'[w] # workers[w])
            => /\ workers'[w].pc = "release"
               /\ UNCHANGED <<cargo, last_sync, call_sign, config, sink>>]_vars

\* the host shut down during a cycle that had failed attempts: the updater
\* is at its finally, the token still held
C20_Witness ==
    \E w \in WorkerIds :
        /\ workers[w].kind = "update" /\ workers[w].pc = "release"
        /\ workers[w].attempt > 0
        /\ ~main_alive
        /\ updates_lock = w

\* C21: recognized events are applied in the order in which they were
\* enqueued and each at most once: when the consumer calls the handler of
\* the queued event at position i, the events before it have been applied
\* and neither it nor any event behind it has been applied before, also
\* after a cycle in which a handler failed.
C21_AppliedInOrderOnce ==
    [][\A c \in ConsumerIds :
        ApplyStep(c) =>
            \A j \in 1 .. Len(delayed_update_data) :
                delayed_update_data[j].applied <=> j < consumers[c].idx]_vars

\* C22: while the main thread stays alive (and the player identity stays the
\* same), every recognized event appended to the pending queue is applied
\* in the end, also when refreshes keep being triggered: a queue that holds
\* events is drained.
C22_EventuallyApplied ==
    (delayed_update_data # <<>>) ~> (delayed_update_data = <<>> \/ ~main_alive)

\* the consumer threads inside the loop of the updater
ConsumerLoops == {c \in ConsumerIds : consumers[c].pc \in {"loop", "apply"}}

\* C23: at most one consumer loop is running in any reachable state, and
\* it is the thread that holds CargoMonitor._updates_lock, also while
\* another consumer thread has been started and has not yet tried the lock.
C23_OneConsumerLoop ==
    /\ Cardinality(ConsumerLoops) <= 1
    /\ \A c \in ConsumerLoops : monitor_lock = c

\* a second consumer thread was started in the window and is about to try
\* the lock while the first one runs the loop
C23_Witness ==
    \E c \in ConsumerLoops :
        \E d \in ConsumerIds \ {c} : consumers[d].pc = "acquire"

\* C24: after a Docked event is applied DockState is docked exactly when
\* the station is a fleet carrier whose name is the call sign of the
\* ledger, after an Undocked event it is undocked, and the persisted
\* DockState is written exactly when the applied event changed the value.
C24_DockStateMachine ==
    [][\A c \in ConsumerIds :
        (ApplyStep(c) /\ Applied(c).entry.event \in {"Docked", "Undocked"}) =>
            /\ cmdr_state' =
                    (/\ Applied(c).entry.event = "Docked"
                     /\ Applied(c).entry.StationType = "FleetCarrier"
                     /\ Applied(c).station = call_sign)
            /\ cmdr_config' = IF cmdr_state' # cmdr_state
                              THEN SavedCmdrState(cmdr_state')
                              ELSE cmdr_config]_vars

\* the Docked event at the own carrier was applied while undocked: the
\* new DockState is stored
C24_Witness ==
    /\ last.op = "Docked" /\ "undocked" \in last.tags
    /\ cmdr_state
    /\ cmdr_config = SavedCmdrState(TRUE)

\* process_journal_entry ran the identity handling: the first event of the
\* process, or an event of another commander than the last known one
JournalStep == last'.op = "journal_entry"

FirstEvent == last_known_cmdr = ""

IdentitySwitch == last_known_cmdr # "" /\ last_known_cmdr' # last_known_cmdr

\* C25: when process_journal_entry handles the first event of the process
\* or an event of another player identity than the last known one,
\* DockState is undocked once the identity handling has run, whatever was
\* held in memory or in the settings.
C25_IdentityResetsDockState ==
    [][(JournalStep /\ (FirstEvent \/ IdentitySwitch)) => ~cmdr_state']_vars

\* C26: the persisted DockState equals the DockState in memory after every
\* transition of it: a Docked or Undocked event that changes it, a transfer
\* that forces it to docked, the reset to undocked on an identity switch.
C26_DockStatePersisted ==
    [][cmdr_state' # cmdr_state => cmdr_config' = SavedCmdrState(cmdr_state')]_vars

\* the update_from_server threads a step started
RefreshesStarted ==
    Cardinality(Updaters(workers')) - Cardinality(Updaters(workers))

\* the refresh of the idle heuristic (lines 180-189), made after the
\* identity handling on an event of no recognized kind
IdleRefresh ==
    IF /\ ~last'.ok
       /\ is_sync_stale(last_sync', 7200, 0)
       /\ ~cmdr_state'
    THEN 1 ELSE 0

\* C27: on an event of another identity than a previously known one the
\* identity handling invokes update_from_server whatever the age of the
\* ledger; on the first event of the process it calls load() and invokes
\* update_from_server only if load() failed or the loaded state is older
\* than 12 hours.
C27_RefreshOnIdentityChange ==
    [][JournalStep =>
        /\ IdentitySwitch => RefreshesStarted - IdleRefresh = 1
        /\ FirstEvent =>
            /\ config.state = "json" =>
                    /\ cargo' \in from_json_dict(config.cargo)
                    /\ last_sync' = config.lastSync
                    /\ call_sign' = config.callSign
            /\ RefreshesStarted - IdleRefresh \in {0, 1}
            /\ RefreshesStarted - IdleRefresh = 1 =>
                    \/ config.state # "json"
                    \/ config.lastSync.kind # "iso"
                    \/ now - config.lastSync.t > 12 * 3600]_vars

\* the first event, of a recognized kind, found a stored ledger older than
\* 12 hours: it was loaded and one refresh thread was started
C27_Witness ==
    /\ last.op = "journal_entry" /\ last.ok
    /\ last_sync = PriorBlob.lastSync
    /\ now - last_sync.t > 12 * 3600
    /\ Cardinality(Updaters(workers)) = 1
    /\ updates_lock = 0

\* the refresh of the identity handling (lines 146 and 151-155)
LoginRefresh ==
    IF IdentitySwitch THEN 1
    ELSE IF FirstEvent /\ (\/ config.state # "json"
                           \/ config.lastSync.kind # "iso"
                           \/ now - config.lastSync.t > 12 * 3600)
    THEN 1 ELSE 0

\* C28: for an event of a kind the delta engine does not recognize,
\* process_journal_entry never enqueues the event and never changes the
\* ledger or DockState; it invokes update_from_server exactly when
\* is_sync_stale(7200) is true and DockState is not docked; a recognized
\* event never triggers this refresh.
C28_UnrecognizedEvent ==
    [][JournalStep =>
        IF last'.ok
        THEN RefreshesStarted = LoginRefresh
        ELSE /\ Len(delayed_update_data') <= Len(delayed_update_data)
             /\ UNCHANGED <<cargo, last_sync, call_sign, cmdr_state>>
             /\ RefreshesStarted =
                    (IF is_sync_stale(last_sync, 7200, 0) /\ ~cmdr_state
                     THEN 1 ELSE 0)]_vars

\* C28, with the identity handling taken into account: an unrecognized
\* event is never enqueued; when it comes from the last known identity it
\* changes neither the ledger nor DockState nor what is stored, and
\* update_from_server is invoked exactly when is_sync_stale(7200) is true
\* and DockState is not docked; when it is the first event or comes from
\* another identity, the identity handling runs first and the staleness
\* refresh is decided on the ledger and DockState it leaves; a recognized
\* event only triggers the refresh of the identity handling.
C28_UnrecognizedSameIdentity ==
    [][JournalStep =>
        IF last'.ok
        THEN RefreshesStarted = LoginRefresh
        ELSE /\ Len(delayed_update_data') <= Len(delayed_update_data)
             /\ UNCHANGED consumers
             /\ RefreshesStarted = LoginRefresh + IdleRefresh
             /\ ~(FirstEvent \/ IdentitySwitch) =>
                    /\ UNCHANGED <<cargo, last_sync, call_sign, config,
                                   cmdr_state, cmdr_config,
                                   delayed_update_data>>
                    /\ RefreshesStarted =
                            (IF is_sync_stale(last_sync, 7200, 0) /\ ~cmdr_state
                             THEN 1 ELSE 0)]_vars

\* an unrecognized event of the last known identity found the ledger idle
\* for more than two hours and the player not docked: a refresh thread was
\* started, the queued event stayed in the queue
C28_Witness ==
    /\ last.op = "journal_entry" /\ ~last.ok
    /\ delayed_update_data # <<>>
    /\ last_sync.kind = "iso"
    /\ now - last_sync.t > 7200 /\ now - last_sync.t <= 12 * 3600
    /\ ~cmdr_state
    /\ Cardinality(Updaters(workers)) = 1

\* C29: no operation hands a handler to the GUI root when the set of
\* (key, quantity) pairs of the ledger is the same after the operation as
\* before it; this holds for inventory(), for load() and for the replace
\* from the carrier data of the server.
C29_NoNotificationWithoutChange ==
    [][Items(cargo') = Items(cargo) => Len(sink') <= Len(sink)]_vars

====
